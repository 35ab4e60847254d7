--------------------------- MODULE MCTransparency ---------------------------
(* A log with trusted issuers and a permissive one, written to by two threads. *)
EXTENDS Transparency, TLC

Good(n) == [issuer |-> "a", key |-> "ka", header |-> n, subject |-> n, type |-> "decision"]
Forged == [Good(1) EXCEPT !.key = NoValue]
Mismatched == [Good(1) EXCEPT !.header = 2]

MCIssuerKey == [i \in {"a"} |-> "ka"]
MCStatements == {Good(1), Good(2), Forged, Mismatched}
MCAllowedTypes == [l \in Logs |-> {"decision"}]
MCStated == {<<0, 1>>, <<0, 2>>, <<1, 2>>, <<1, 3>>, <<2, 3>>, <<3, 4>>}
MCMaxSize == [l \in Logs |-> IF l = "open" THEN 1 ELSE 4]

\* The permissive log admits the forged statement, and one with a receipt that says it is the
\* second of two; the other log lets the second good statement have an empty list.
MCPolicy(l, document) ==
  IF l = "open"
  THEN \/ document = Bare(Forged)
       \/ \E r \in Range(document.receipts) : r.index = 1 /\ r.size = 2
  ELSE document.header394 => document.statement = Good(2)

Strict == statements["strict"]
Open == statements["open"]

\* The permissive log is given its statement while the other has up to two entries, and then
\* the other log is left alone.  Of the two good statements, which differ in nothing else, the
\* first is registered first.  With an empty list, the second is the second and last entry.
\* The fourth entry is registered when no other is being registered.
Restricted ==
  /\ Open' # Open => On("strict") = {} /\ Len(Strict) <= 2
  /\ Open' # <<>> => Strict' = Strict
  /\ Strict' # <<>> => Strict'[1] = Bare(Good(1))
  /\ \A n \in DOMAIN Strict' : Strict'[n].header394 => n = 2 /\ Len(Strict') = 2
  /\ Strict' # Strict /\ Len(Strict) = 3 => On("strict") = {}

Symmetry == Permutations(Threads)
=============================================================================
