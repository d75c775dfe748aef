---------------------------- MODULE MCDataPlane ----------------------------
(***************************************************************************)
(* Rule tables and symmetry for checking DataPlane with one or two ports.  *)
(***************************************************************************)
EXTENDS DataPlaneRefinement, TLC

\* HTTP and SIP each way between ports 0 and 1, HTTP with a tag; RTP dropped.
Bridge == <<0, "HTTP">> :> <<PUSH("a"), PUSH("b"), OUTPUT(1)>>
          @@ <<1, "HTTP">> :> <<PUSH("a"), OUTPUT(0)>>
          @@ <<0, "RTP">> :> <<DROP>>
          @@ <<1, "RTP">> :> <<DROP>>

\* Two copies to one port fill a buffer within one action list, a third one
\* waits in the buffer of the port of arrival; HTTP of port 1 has no rule.
Mirror == <<0, "HTTP">> :> <<OUTPUT(1), OUTPUT(1), OUTPUT(0)>>
          @@ <<1, "RTP">> :> <<OUTPUT(0)>>

\* Both ports send to port 0: OUTPUT to the port of arrival is allowed.
Shared == <<0, "HTTP">> :> <<OUTPUT(0)>> @@ <<1, "HTTP">> :> <<OUTPUT(0)>>

Exclusive == {Bridge, Mirror}
AllTables == {Bridge, Mirror, Shared}
SharedOnly == {Shared}

\* For a single port: each HTTP packet goes back twice; the other classes
\* have a rule in one of the tables only.
Back == <<0, "HTTP">> :> <<OUTPUT(0), OUTPUT(0)>>
Hairpin == {Back, Back @@ <<0, "RTP">> :> <<DROP>>
                       @@ <<0, "UNKNOWN">> :> <<OUTPUT(0)>>}

MbufSymmetry == Permutations(Mbufs)
=============================================================================
