----------------------------- MODULE Forwarding -----------------------------
(***************************************************************************)
(* What a rule makes of a received frame: the frames that leave each port  *)
(* when its actions are executed, said of the list as a whole.             *)
(***************************************************************************)
EXTENDS Rules, SequencesExt, FiniteSets

\* The tags an action list pushes, in their order.
PushedTags(actions) ==
  LET tags(a) == IF IsPush(a) THEN <<a.tag>> ELSE << >>
  IN FlattenSeq([i \in DOMAIN actions |-> tags(actions[i])])

\* The frame f once every push of the action list has been executed on it.
Modified(f, actions) ==
  LET tags == f.tags \o PushedTags(actions)
      kept == IF Len(tags) < Headroom THEN Len(tags) ELSE Headroom
  IN [f EXCEPT !.tags = SubSeq(tags, 1, kept)]

\* The frames the action list sends to port q for a received frame f, in the
\* order it sends them: one modified copy for each OUTPUT(q).
Emitted(f, actions, q) ==
  LET outputs == {i \in DOMAIN actions : actions[i] = OUTPUT(q)}
      copy == Modified(f, actions)
  IN [i \in 1 .. Cardinality(outputs) |-> copy]

\* The actions the table has for a frame; the empty list when it has none:
\* the packet goes no further.
ActionsFor(rules, f) ==
  IF <<f.src, f.class>> \in DOMAIN rules THEN rules[<<f.src, f.class>>]
                                         ELSE << >>
=============================================================================
