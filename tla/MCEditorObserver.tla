-------------------------- MODULE MCEditorObserver --------------------------
(***************************************************************************)
(* An instance of EditorObserver: a theorem that uses a lemma.             *)
(***************************************************************************)
EXTENDS EditorObserver, TLC

CONSTANTS lemma, theorem, l1, l2, t1, t2

TheoremUsesLemma == (lemma :> {}) @@ (theorem :> {lemma})

MCSources == (lemma :> {l1, l2}) @@ (theorem :> {t1, t2})

\* Sources of different nodes are never compared.
Symmetric == {p @@ q : p \in Permutations({l1, l2}), q \in Permutations({t1, t2})}

\* No node depends on the theorem: what its file holds, what it held before
\* and what inputs say of it, other than while a certificate is made, decides
\* nothing.  States that differ in no more are the same.
Deciding ==
  LET requested == IF custom.stage = "refreshing"
                   THEN <<Environment(custom.input), custom.left>>
                   ELSE IF custom.stage = "certified" THEN <<Idle>> ELSE <<custom>>
      reserved == IF session.stage = "reserved"
                  THEN <<Environment(session.input)>> ELSE <<session.stage>>
      known == IF observer.prepared[theorem] = None THEN <<>>
               ELSE <<Environment(observer.prepared[theorem]), observer.keys[lemma]>>
  IN <<head, past[lemma], lemma \in returned, saves, reserved, disk[lemma], sources[lemma],
       known, observer.documents, observer.pending, reused, requested, native>>

\* Once an identifier is used again, what is claimed of other sessions says
\* nothing until the session is over, and all that is left then is the branch.
Claimed ==
  IF reused THEN <<head, past[lemma], lemma \in returned, saves>> ELSE Deciding

\* Only sessions whose requests have identifiers of their own.
OwnIdentifiers == ~ reused

\* Of the ways to use an identifier again: for the same kind of request.
SameRequest ==
  \A k \in DOMAIN toLean :
    /\ toLean[k].kind = "wait" => toLean[k].id = CHOOSE i \in Ids : TRUE
    /\ toLean[k].kind = "imports" => toLean[k].id # CHOOSE i \in Ids : TRUE
=============================================================================
