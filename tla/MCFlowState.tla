---------------------------- MODULE MCFlowState -----------------------------
(* A source S and a destination D, with two routes that part at relay A.    *)
EXTENDS FlowState

CONSTANTS S, A, B, D

MCLinks == {{S, A}, {S, B}, {A, B}, {A, D}, {B, D}}
MCDiscovered == {<<S, A, D>>, <<S, A, B, D>>, <<A, S>>, <<B, A, S>>, <<A, B, D>>}
MCMobile == {{S, A}, {A, D}}
MCTraffic ==
  {<<<<S, D, 4>>, <<S, D, t>>, <<S, D, 4>>>> : t \in {4, 5}}

\* A later state.  The establishing packets of four flows were lost, and their first
\* relays know none of them: the error about a packet from S to D went from A by
\* B, the error about that one from B by S, and the error about that is on its way
\* from S by A.  The last error and the first one both tell S.  Since it sent that
\* error S has found the link to A down for a while.
Lost(r, f, t) == NewEntry(r[1], r[Len(r)], f, r, 0, t, TRUE)
Over(e) == [e EXCEPT !.adv = FALSE, !.alive = FALSE]

Third ==
  [Data(S, B, ErrorTTL) EXCEPT
     !.derrs = <<[src |-> S, dst |-> D, id |-> 0]>>,
     !.errs = <<[src |-> A, dst |-> S, id |-> 1], [src |-> B, dst |-> A, id |-> 1]>>]

LateInit ==
  /\ table = [n \in Node |->
       CASE n = S -> <<Over(Lost(<<S, A, D>>, 1, 4)), Over(Lost(<<S, A, B>>, 3, ErrorTTL))>>
         [] n = A -> <<Over(Lost(<<A, B, S>>, 1, 4))>>
         [] n = B -> <<Over(Lost(<<B, S, A>>, 1, 4))>>
         [] OTHER -> <<>>]
  /\ dflt = [n \in Node |-> [f \in Node \X Node |->
       CASE n = S /\ f = <<S, D>> -> 1
         [] n = S /\ f = <<S, B>> -> 3
         [] n = A /\ f = <<A, S>> -> 1
         [] n = B /\ f = <<B, A>> -> 1
         [] OTHER -> NoFlow]]
  /\ counter = [n \in Node |-> CASE n = S -> 4 [] n \in {A, B} -> 2 [] OTHER -> 0]
  /\ routes = [n \in Node |->
       CASE n = A -> {<<A, B, S>>, <<A, S>>}
         [] n = B -> {<<B, S, A>>}
         [] OTHER -> {}]
  /\ links = Start
  /\ air = {Packet(Third, <<>>, 0, NoFlow, S, A)}
  /\ told = {}
  /\ todo = <<>>
  /\ due = <<>>
  /\ moves = MaxMoves

MCSpec == (Init \/ LateInit) /\ [][Next]_vars

=============================================================================
