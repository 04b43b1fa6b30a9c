---------------------------- MODULE ManagedState ----------------------------
(***************************************************************************)
(* The nonce manager on top of a state (src/model/state/manage.go).  It    *)
(* hands out nonces of accounts ahead of the chain.  A method is one step: *)
(* it holds ms.mu while it works.  (GetNonce holds it only for reading,    *)
(* although getAccount may write; RemoveNonce looks the account up before  *)
(* it locks, and no entry is ever deleted.)                                *)
(***************************************************************************)
EXTENDS Integers, Sequences

CONSTANTS
    Addrs,     \* account addresses
    MaxNonce,  \* bound on the nonces the state and the callers use
    MaxAhead,  \* bound on the number of nonces tracked ahead of an account
    Word       \* number of values of an unsigned integer, 2^64 in the code

ASSUME ManagedStateAssumption ==
    /\ MaxNonce \in Nat /\ MaxAhead \in Nat /\ Word \in Nat
    /\ Word > 2 * (MaxNonce + MaxAhead)

VARIABLES
    stateNonce,  \* nonce in the backing StateDB, 0 without a state object
    managed,     \* addresses with an entry in ms.accounts
    nstart,      \* account.nstart of a managed address
    nonces,      \* account.nonces of a managed address
    answer,      \* the last call that returned a nonce, with the state's nonce then
    outstanding  \* nonces handed out by NewNonce and not taken back since

vars == <<stateNonce, managed, nstart, nonces, answer, outstanding>>

NonceRange == 0..(MaxNonce + MaxAhead)

TypeOK ==
    /\ stateNonce \in [Addrs -> 0..MaxNonce]
    /\ managed \subseteq Addrs
    /\ nstart \in [Addrs -> 0..MaxNonce]
    /\ nonces \in [Addrs -> Seq({TRUE})]
    /\ \A a \in Addrs : Len(nonces[a]) <= MaxAhead
    /\ answer \in [op: {"none", "new", "get"}, nonce: NonceRange, state: 0..MaxNonce,
                   fresh: BOOLEAN]
    /\ outstanding \in [Addrs -> SUBSET NonceRange]

(* ManageState: nothing is tracked yet. *)
Init ==
    /\ stateNonce \in [Addrs -> 0..MaxNonce]
    /\ managed = {}
    /\ nstart = [a \in Addrs |-> 0]
    /\ nonces = [a \in Addrs |-> <<>>]
    /\ answer = [op |-> "none", nonce |-> 0, state |-> 0, fresh |-> TRUE]
    /\ outstanding = [a \in Addrs |-> {}]

-----------------------------------------------------------------------------
(* Mutant: getAccount never compares the tracked nonce with the state. *)
RenewedOnce(a) == a \notin managed

(* getAccount starts tracking at the state's nonce if the account is not
   tracked yet, or if the state has overtaken what is tracked.             *)
Renewed(a) == a \notin managed \/ Len(nonces[a]) + nstart[a] < stateNonce[a]

(* nstart and nonces of the account that getAccount returns. *)
StartOf(a) == IF Renewed(a) THEN stateNonce[a] ELSE nstart[a]
NoncesOf(a) == IF Renewed(a) THEN <<>> ELSE nonces[a]

(* The account is tracked from start on, with the nonces ns handed out. *)
Track(a, start, ns) ==
    /\ managed' = managed \cup {a}
    /\ nstart' = [nstart EXCEPT ![a] = start]
    /\ nonces' = [nonces EXCEPT ![a] = ns]

(* Mutant: NewNonce does not record the nonce that it returns. *)
NewNonceUnrecorded(a) ==
    LET n == StartOf(a) + Len(NoncesOf(a))
    IN  /\ Track(a, StartOf(a), NoncesOf(a))
        /\ answer' = [op |-> "new", nonce |-> n, state |-> stateNonce[a],
                      fresh |-> n \notin outstanding[a]]
        /\ outstanding' = [outstanding EXCEPT ![a] = @ \cup {n}]
        /\ UNCHANGED stateNonce

(* NewNonce returns the first nonce that is not marked as used or, if all
   are, extends the slice.                                                 *)
NewNonce(a) ==
    LET ns    == NoncesOf(a)
        holes == {i \in 1..Len(ns) : ~ns[i]}
        n     == StartOf(a) + (IF holes = {} THEN Len(ns)
                               ELSE (CHOOSE i \in holes : \A j \in holes : i <= j) - 1)
    IN  /\ Len(ns) < MaxAhead
        /\ Track(a, StartOf(a), IF holes = {} THEN Append(ns, TRUE) ELSE ns)
        /\ answer' = [op |-> "new", nonce |-> n, state |-> stateNonce[a],
                      fresh |-> n \notin outstanding[a]]
        /\ outstanding' = [outstanding EXCEPT ![a] = @ \cup {n}]
        /\ UNCHANGED stateNonce

(* GetNonce of a managed account refreshes it; otherwise it asks the state. *)
GetNonce(a) ==
    /\ \/ /\ a \in managed
          /\ Track(a, StartOf(a), NoncesOf(a))
          /\ answer' = [op |-> "get", nonce |-> StartOf(a) + Len(NoncesOf(a)),
                        state |-> stateNonce[a], fresh |-> TRUE]
       \/ /\ a \notin managed
          /\ answer' = [op |-> "get", nonce |-> stateNonce[a], state |-> stateNonce[a],
                        fresh |-> TRUE]
          /\ UNCHANGED <<managed, nstart, nonces>>
    /\ UNCHANGED <<stateNonce, outstanding>>

(* SetNonce sets the nonce in the backing state and tracks from there. *)
SetNonce(a, n) ==
    /\ stateNonce' = [stateNonce EXCEPT ![a] = n]
    /\ Track(a, n, <<>>)
    /\ outstanding' = [outstanding EXCEPT ![a] = {m \in @ : m < n}]
    /\ UNCHANGED answer

(* RemoveNonce cuts the slice before nonce n.  The offset n - nstart is an
   unsigned difference: below nstart it is huge and nothing is removed.    *)
RemoveNonce(a, n) ==
    LET offset == (n - StartOf(a)) % Word
        cut    == offset <= Len(NoncesOf(a))
    IN  /\ a \in managed
        /\ Track(a, StartOf(a),
                 IF cut THEN SubSeq(NoncesOf(a), 1, offset) ELSE NoncesOf(a))
        /\ outstanding' = [outstanding EXCEPT ![a] = IF cut THEN {m \in @ : m < n} ELSE @]
        /\ UNCHANGED <<stateNonce, answer>>

(* SetState replaces the backing state and keeps what is tracked. *)
SetState ==
    /\ stateNonce' \in [Addrs -> 0..MaxNonce]
    /\ UNCHANGED <<managed, nstart, nonces, answer, outstanding>>

Next ==
    \/ \E a \in Addrs : NewNonce(a) \/ GetNonce(a)
    \/ \E a \in Addrs, n \in 0..MaxNonce : SetNonce(a, n) \/ RemoveNonce(a, n)
    \/ SetState

Spec == Init /\ [][Next]_vars

-----------------------------------------------------------------------------
(* NewNonce never hands out a nonce that it has handed out before and that
   nobody has given back with RemoveNonce or SetNonce, even when the backing
   state is replaced by an older or a newer one in between.                *)
FreshNonce == answer.fresh

(* No call returns a nonce that the state has used: getAccount's "always make
   sure the state account nonce isn't actually higher than the tracked one". *)
NeverBehind == answer.nonce >= answer.state

(* What is outstanding is tracked: it lies below the nonce that ms.accounts
   holds as the next one, even before getAccount compares it with the state. *)
OutstandingTracked ==
    \A a \in Addrs : \A n \in outstanding[a] :
        a \in managed /\ n < nstart[a] + Len(nonces[a])
=============================================================================
