----------------------------- MODULE RoundLedger -----------------------------
(***************************************************************************)
(* What the evidence registry promises about commit-reveal rounds, without *)
(* handlers, statements, clocks or deadlines.  A round is born committing, *)
(* reveals, and closes, in this order and never back; a path has one round *)
(* that is not closed; a builder commits at most once in a round, for      *)
(* good; and what it publishes there, once and never while the round is    *)
(* committing, is what its digest stands for.                              *)
(*                                                                         *)
(* Two things are missing on purpose, because the code does not promise    *)
(* them: a builder may join a round whose commit phase is over, and it may *)
(* publish in a round that has closed.                                     *)
(***************************************************************************)
EXTENDS Naturals, Sequences

CONSTANTS Builders, Paths, Digests, Evidence(_)

VARIABLE ledger  \* the rounds: path, phase, digest and evidence by builder

Phases == {"committing", "revealing", "closed"}

Round == [path : Paths, phase : Phases,
          committed : UNION {[B -> Digests] : B \in SUBSET Builders},
          published : UNION {[B -> {Evidence(d) : d \in Digests}] : B \in SUBSET Builders}]

Empty == [b \in {} |-> b]
Extended(f, x, v) == [y \in DOMAIN f \cup {x} |-> IF y = x THEN v ELSE f[y]]

Open(path) ==
    /\ \A r \in DOMAIN ledger : ledger[r].path = path => ledger[r].phase = "closed"
    /\ ledger' = Append(ledger, [path |-> path, phase |-> "committing",
                                 committed |-> Empty, published |-> Empty])

Join(r) ==
    \E b \in Builders \ DOMAIN ledger[r].committed, d \in Digests :
        ledger' = [ledger EXCEPT ![r].committed = Extended(@, b, d)]

Begin(r) ==
    /\ ledger[r].phase = "committing"
    /\ ledger' = [ledger EXCEPT ![r].phase = "revealing"]

Publish(r) ==
    /\ ledger[r].phase # "committing"
    /\ \E b \in DOMAIN ledger[r].committed \ DOMAIN ledger[r].published :
         ledger' = [ledger EXCEPT
                      ![r].published = Extended(@, b, Evidence(ledger[r].committed[b]))]

Close(r) ==
    /\ ledger[r].phase = "revealing"
    /\ ledger' = [ledger EXCEPT ![r].phase = "closed"]

Init == ledger = <<>>

Next ==
    \/ \E path \in Paths : Open(path)
    \/ \E r \in DOMAIN ledger : Join(r) \/ Begin(r) \/ Publish(r) \/ Close(r)

Spec == Init /\ [][Next]_ledger

=============================================================================
