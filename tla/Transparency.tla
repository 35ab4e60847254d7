---------------------------- MODULE Transparency ----------------------------
(***************************************************************************)
(* The SCITT transparency service and its receipts (scitt.py):              *)
(* LocalTransparencyLog.register, the RFC 6962 tree, add_receipt and        *)
(* verify_transparent_statement.                                            *)
(*                                                                          *)
(* register takes no lock: it appends to two lists, reads the length of one *)
(* twice and copies the other twice, and each of these is a step.  A        *)
(* statement stands for its bytes, a tree node for its hash.  A receipt is  *)
(* a signature over its sub and the root it was issued for; its index, size *)
(* and path are in the unprotected header, and anyone can restate them.     *)
(***************************************************************************)
EXTENDS Naturals, Sequences, FiniteSets, SequencesExt

CONSTANTS
  Threads,
  Logs, TrustedLogs,
  Permissive,       \* the logs without trusted_issuers
  Issuers, IssuerKey,
  Statements, KnownTypes,
  AllowedTypes,     \* by log
  registration_policy(_, _),  \* of a log, which of the statements it sees it admits
  MaxSize,          \* of a log
  Stated,           \* the index and the size someone may write into a receipt
  NoValue

Statement == [issuer: Issuers, key: {IssuerKey[i] : i \in Issuers} \cup {NoValue},
              header: {1, 2}, subject: {1, 2}, type: KnownTypes \cup {NoValue}]

ASSUME StatementAssumption ==
  /\ Statements \subseteq Statement /\ TrustedLogs \subseteq Logs /\ Permissive \subseteq Logs
  /\ \A l \in Logs : AllowedTypes[l] \subseteq KnownTypes /\ MaxSize[l] \in Nat
  /\ Stated \subseteq Nat \X Nat
  /\ NoValue \notin KnownTypes /\ \A i \in Issuers : IssuerKey[i] # NoValue

VARIABLES
  statements, leaf_hashes,    \* by log
  registering,                \* by thread: a call of register
  issued,                     \* receipts
  alone                       \* those of calls that overlapped no other on their log

logVars == <<statements, leaf_hashes, registering, issued, alone>>

-----------------------------------------------------------------------------
(* The tree *)

_leaf(data) == [data |-> data]
_node(l, r) == [left |-> l, right |-> r]

\* The largest power of two smaller than n, for n > 1: the loop doubles k while it can.
_split(n) ==
  LET k[m \in 0 .. n] == IF m = 0 THEN 1 ELSE IF 2 * k[m - 1] < n THEN 2 * k[m - 1] ELSE k[m - 1]
  IN  k[n]

Left(level) == SubSeq(level, 1, _split(Len(level)))
Right(level) == SubSeq(level, _split(Len(level)) + 1, Len(level))

\* Where the recursions on the slices of a list are defined.
Slices(list) == BoundedSeq(Range(list), Len(list))

_mth(level) ==
  LET root[s \in Slices(level)] ==
        IF Len(s) <= 1 THEN s[1] ELSE _node(root[Left(s)], root[Right(s)])
  IN  root[level]

\* Mutant of FromTheLeft: the root of the left tree comes last, as the one of the right does.
LastOfAll(root, inner) == Append(inner, root)

FromTheLeft(root, inner) == <<root>> \o inner

\* Of a leaf_index below the number of leaves; the index counts from 0.
_audit_path(level, index) ==
  LET path[s \in Slices(level)] == [i \in 0 .. index |->
        LET k == _split(Len(s)) IN
        IF Len(s) <= 1 THEN <<>>
        ELSE IF i < k THEN Append(path[Left(s)][i], _mth(Right(s)))
        ELSE FromTheLeft(_mth(Left(s)), path[Right(s)][i - k])]
  IN  path[level][index]

\* What comes of a proof the code refuses: no leaf and no node.
Raises == [raises |-> TRUE]

\* A node over Raises, where the code raises as well, is the root of no tree.
_root_from_proof(leaf, index, proof, size) ==
  LET root[p \in Slices(proof)] == [i \in 0 .. index |-> [n \in 0 .. size |->
        LET k == _split(n) IN
        IF i >= n THEN Raises
        ELSE IF n = 1 THEN IF p = <<>> THEN leaf ELSE Raises
        ELSE IF p = <<>> THEN Raises
        ELSE IF i < k THEN _node(root[Front(p)][i][k], Last(p))
        ELSE _node(Head(p), root[Tail(p)][i - k][n - k])]]
  IN  root[proof][index][size]

-----------------------------------------------------------------------------
(* Statements and receipts *)

\* header394: whether the unprotected header has the label of the receipts.
Bare(x) == [statement |-> x, header394 |-> FALSE, receipts |-> <<>>]
EmptyList(x) == [Bare(x) EXCEPT !.header394 = TRUE]
add_receipt(document, receipt) == [document EXCEPT !.header394 = TRUE, !.receipts = Append(@, receipt)]

\* Mutant of CarriesNone: parse_statement does not look at the receipts.
CarriesAny(document) == TRUE

\* An empty list under the label is no receipt either.
CarriesNone(document) == document.receipts = <<>>

\* _scitt_verify finds the key by the kid; the iss claim is not compared with it.
Signed(document) == document.statement.key = IssuerKey[document.statement.issuer]

parse_statement(document, allow_receipts) ==
  LET x == document.statement IN
  /\ Signed(document)
  /\ ~allow_receipts => CarriesNone(document)
  /\ x.subject = x.header
  /\ x.type \in KnownTypes

\* Structure only, and no look at the receipts.
_parse_untrusted(document) == document.statement \in Statement

Registrable(l, document) ==
  /\ IF l \in Permissive THEN _parse_untrusted(document) ELSE parse_statement(document, FALSE)
  /\ document.statement.type \in AllowedTypes[l]
  /\ registration_policy(l, document)

\* Mutant of Derives: the root is taken from the receipt.
DerivesNothing(receipt, document) == TRUE

Derives(receipt, document) ==
  receipt.root = _root_from_proof(_leaf(document), receipt.index, receipt.path, receipt.size)

\* What the trusted log has signed is receipt.sub and receipt.root; the index, the size and
\* the path that Derives reads are as they are stated.
_verify_receipt(receipt, document) ==
  /\ receipt.sub = document
  /\ receipt.log \in TrustedLogs
  /\ Derives(receipt, document)

verify_transparent_statement(document) ==
  /\ parse_statement(document, TRUE)
  /\ document.receipts # <<>>
  /\ \A n \in DOMAIN document.receipts : _verify_receipt(document.receipts[n], Bare(document.statement))

-----------------------------------------------------------------------------
(* register *)

IdleCall == [pc |-> "idle"]

LogInit ==
  /\ statements = [l \in Logs |-> <<>>] /\ leaf_hashes = [l \in Logs |-> <<>>]
  /\ registering = [t \in Threads |-> IdleCall]
  /\ issued = {} /\ alone = {}

On(l) == {t \in Threads : registering[t].pc # "idle" /\ registering[t].log = l}

\* Receipts with another index, size or path than they were issued with: the signature holds.
restate(receipt, position, path) ==
  [receipt EXCEPT !.index = position[1], !.size = position[2], !.path = path]
Restated == {restate(r, position, q.path) : r \in issued, position \in Stated, q \in issued}

\* A receipt is embedded, and the statement that carries it presented, by anyone.
Presentable == {Bare(x) : x \in Statements} \cup {EmptyList(x) : x \in Statements}
                 \cup {add_receipt(r.sub, r) : r \in issued \cup Restated}

\* What is refused changes nothing.
AppendStatement(t, l) ==
  /\ registering[t].pc = "idle"
  /\ Len(statements[l]) < MaxSize[l]
  /\ \E document \in Presentable :
       /\ Registrable(l, document)
       /\ statements' = [statements EXCEPT ![l] = Append(@, document)]
       /\ registering' = [u \in Threads |->
            IF u = t THEN [pc |-> "leaf", log |-> l, document |-> document, index |-> 0, size |-> 0, root |-> NoValue,
                           alone |-> On(l) = {}]
            ELSE IF u \in On(l) THEN [registering[u] EXCEPT !.alone = FALSE] ELSE registering[u]]
  /\ UNCHANGED <<leaf_hashes, issued, alone>>

AppendLeaf(t) ==
  /\ registering[t].pc = "leaf"
  /\ leaf_hashes' = [leaf_hashes EXCEPT ![registering[t].log] = Append(@, _leaf(registering[t].document))]
  /\ registering' = [registering EXCEPT ![t].pc = "index"]
  /\ UNCHANGED <<statements, issued, alone>>

ReadIndex(t) ==
  /\ registering[t].pc = "index"
  /\ registering' = [registering EXCEPT ![t].pc = "size", ![t].index = Len(statements[registering[t].log]) - 1]
  /\ UNCHANGED <<statements, leaf_hashes, issued, alone>>

ReadSize(t) ==
  /\ registering[t].pc = "size"
  /\ registering' = [registering EXCEPT ![t].pc = "root", ![t].size = Len(statements[registering[t].log])]
  /\ UNCHANGED <<statements, leaf_hashes, issued, alone>>

ReadRoot(t) ==
  /\ registering[t].pc = "root"
  /\ registering' = [registering EXCEPT ![t].pc = "proof", ![t].root = _mth(leaf_hashes[registering[t].log])]
  /\ UNCHANGED <<statements, leaf_hashes, issued, alone>>

\* _audit_path raises for an index whose leaf is not there; the statement stays in the log.
SignReceipt(t) ==
  LET r == registering[t]
      receipt == [log |-> r.log, sub |-> r.document, index |-> r.index, size |-> r.size, root |-> r.root,
                  path |-> _audit_path(leaf_hashes[r.log], r.index)] IN
  /\ r.pc = "proof"
  /\ IF r.index < Len(leaf_hashes[r.log])
     THEN issued' = issued \cup {receipt} /\ alone' = IF r.alone THEN alone \cup {receipt} ELSE alone
     ELSE UNCHANGED <<issued, alone>>
  /\ registering' = [registering EXCEPT ![t] = IdleCall]
  /\ UNCHANGED <<statements, leaf_hashes>>

LogNext ==
  \/ \E t \in Threads, l \in Logs : AppendStatement(t, l)
  \/ \E t \in Threads : AppendLeaf(t) \/ ReadIndex(t) \/ ReadSize(t) \/ ReadRoot(t) \/ SignReceipt(t)

LogSpec == LogInit /\ [][LogNext]_logVars

-----------------------------------------------------------------------------
(* Properties *)

\* Type invariant: the two lists differ by what is between their appends, and a log with
\* trusted issuers holds statements of theirs, without receipts.
LogTypeOK ==
  /\ \A l \in Logs :
       /\ Len(statements[l]) <= MaxSize[l]
       /\ Len(statements[l]) = Len(leaf_hashes[l]) + Cardinality({t \in On(l) : registering[t].pc = "leaf"})
       /\ Range(leaf_hashes[l]) \subseteq {_leaf(d) : d \in Range(statements[l])}
       /\ l \notin Permissive => \A d \in Range(statements[l]) : parse_statement(d, TRUE) /\ d.receipts = <<>>
  /\ \A t \in Threads :
       registering[t].pc # "idle" =>
         /\ registering[t].pc \in {"leaf", "index", "size", "root", "proof"}
         /\ registering[t].document \in Range(statements[registering[t].log])
         /\ registering[t].index <= Len(statements[registering[t].log])
  /\ \A r \in issued : r.log \in Logs /\ r.index < r.size /\ r.size <= MaxSize[r.log]
  /\ alone \subseteq issued

\* verify_transparent_statement: "verify the issuer's signature AND every embedded receipt".
\* A statement that verifies, with one receipt whatever its index, size and path were changed
\* to, or with two as they were issued, is in a tree that each of their logs has had, and whose
\* root that log signed, now and ever after, however many registrations ran in parallel.  The
\* index it states is the statement's own when the receipt is as it was issued, or states the
\* size of that tree.  With another size it is not: a receipt of index 1 in a tree of two
\* verifies as one of index 2 in a tree of three, as nothing covers either (scitt.py:535-542).
TransparentIsLogged ==
  \A receipts \in {<<r>> : r \in issued \cup Restated} \cup (issued \X issued) : \A x \in Statements :
    verify_transparent_statement([statement |-> x, header394 |-> TRUE, receipts |-> receipts]) =>
      \A n \in DOMAIN receipts :
        LET r == receipts[n]
            leaves == leaf_hashes[r.log] IN
        \E m \in 1 .. Len(leaves) :
          /\ r.root = _mth(SubSeq(leaves, 1, m))
          /\ \E k \in 1 .. m : leaves[k] = _leaf(Bare(x))
          /\ r \in issued \/ r.size = m => r.index < m /\ leaves[r.index + 1] = _leaf(Bare(x))

\* A call of register that overlapped no other returns a receipt over the tree of its size
\* that verifies for the statement, unless what was registered had the label of the receipts
\* itself: with receipts, which a permissive log lets in, or with an empty list, which every
\* log does (scitt.py:389 takes it for none, and verify_transparent_statement strips it).
LoneReceiptsVerify ==
  \A r \in alone :
    /\ r.size = r.index + 1
    /\ r.root = _mth(SubSeq(leaf_hashes[r.log], 1, r.size))
    /\ r.log \in TrustedLogs /\ ~r.sub.header394 => _verify_receipt(r, r.sub)
    /\ r.sub.header394 => \A x \in Statements : ~_verify_receipt(r, Bare(x))

=============================================================================
