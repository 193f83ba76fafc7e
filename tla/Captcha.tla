------------------------------ MODULE Captcha ------------------------------
(***************************************************************************)
(* The proof-of-work gate of src/src/captcha.cpp: stateless challenge      *)
(* tokens signed with a secret of the process, and the ledger that is to   *)
(* make each of them usable once.                                          *)
(*                                                                         *)
(* A token is its random nonce_hex; the HMAC is abstracted to the run of   *)
(* the process (`epoch') whose secret signed it, and finding a proof of    *)
(* work to the client submitting one that meets the difficulty.            *)
(* A verification checks the token against the clock first and takes the   *)
(* mutex of the ledger later: two actions.                                 *)
(***************************************************************************)
EXTENDS Naturals, FiniteSets

CONSTANTS
    PowTokens,      \* nonces issueChallenge can draw
    Verifiers,      \* threads that run POST /api/rooms at once
    Validity,       \* validityWindowSeconds (60)
    MaxTime,        \* bound: seconds the clock advances
    MaxRestarts,    \* bound: restarts of the process
    NoPowToken      \* no verification under way

ASSUME CaptchaAssumption ==
    /\ Validity \in Nat \ {0} /\ MaxTime \in Nat /\ MaxRestarts \in Nat
    /\ NoPowToken \notin PowTokens

VARIABLES
    clock,      \* util::nowSeconds()
    epoch,      \* which process runs, hence which secret is in use
    exp,        \* the exp field of each token; 0: not issued
    signed,     \* the epoch whose secret signed it
    seen,       \* Ledger::seen, the nonces accepted and not collected
    ver,        \* the verifications past their checks
    accepted    \* history: how often each token was accepted

vars == <<clock, epoch, exp, signed, seen, ver, accepted>>

\* A verification about to lock the ledger: its token, and `now' as it read it.
Checked(k, t) == [token |-> k, now |-> t]
NoCheck       == Checked(NoPowToken, 0)

TypeOK ==
    /\ clock \in Nat /\ epoch \in Nat
    /\ exp \in [PowTokens -> Nat]
    /\ signed \in [PowTokens -> Nat]
    /\ seen \subseteq PowTokens
    /\ ver \in [Verifiers -> [token: PowTokens \cup {NoPowToken}, now: Nat]]
    /\ accepted \in [PowTokens -> Nat]

Init ==
    /\ clock = 0
    /\ epoch = 0
    /\ exp = [k \in PowTokens |-> 0]
    /\ signed = [k \in PowTokens |-> 0]
    /\ seen = {}
    /\ ver = [v \in Verifiers |-> NoCheck]
    /\ accepted = [k \in PowTokens |-> 0]

\* issueChallenge: a random nonce does not repeat.
IssueChallenge(k) ==
    /\ exp[k] = 0
    /\ exp' = [exp EXCEPT ![k] = clock + Validity]
    /\ signed' = [signed EXCEPT ![k] = epoch]
    /\ UNCHANGED <<clock, epoch, seen, ver, accepted>>

Unexpired(k) == exp[k] > clock

\* verifyChallenge up to the ledger: signature, expiry, proof.
VerifyChecks(v, k) ==
    /\ ver[v] = NoCheck
    /\ exp[k] # 0 /\ signed[k] = epoch
    /\ Unexpired(k)
    /\ ver' = [ver EXCEPT ![v] = Checked(k, clock)]
    /\ UNCHANGED <<clock, epoch, exp, signed, seen, accepted>>

\* ... or BadHmac, Expired: nothing changes.  (Malformed and BadProof do not
\* depend on the state and are left out.)
VerifyRefuses(v, k) ==
    /\ ver[v] = NoCheck
    /\ exp[k] # 0
    /\ signed[k] # epoch \/ ~Unexpired(k)
    /\ UNCHANGED vars

\* Mutant of GcLocked: entries are dropped a second too early.
GcLockedEarly(t) == {k \in seen : exp[k] > t + 1}

\* gcLocked: the entries that have not expired by `t'.
GcLocked(t) == {k \in seen : exp[k] > t}

\* ... and its end: collect, then insert or find the nonce used.
VerifyLedger(v) ==
    LET k == ver[v].token
        kept == GcLocked(ver[v].now)
    IN
    /\ k \in PowTokens
    /\ seen' = kept \cup {k}
    /\ accepted' = IF k \in kept THEN accepted
                                 ELSE [accepted EXCEPT ![k] = @ + 1]
    /\ ver' = [ver EXCEPT ![v] = NoCheck]
    /\ UNCHANGED <<clock, epoch, exp, signed>>

Tick ==
    /\ clock < MaxTime
    /\ clock' = clock + 1
    /\ UNCHANGED <<epoch, exp, signed, seen, ver, accepted>>

\* A new process draws a new secret and starts with an empty ledger.
Restart ==
    /\ epoch < MaxRestarts
    /\ epoch' = epoch + 1
    /\ seen' = {}
    /\ ver' = [v \in Verifiers |-> NoCheck]
    /\ UNCHANGED <<clock, exp, signed, accepted>>

Next ==
    \/ \E k \in PowTokens : IssueChallenge(k)
    \/ \E v \in Verifiers, k \in PowTokens : VerifyChecks(v, k) \/ VerifyRefuses(v, k)
    \/ \E v \in Verifiers : VerifyLedger(v)
    \/ Tick
    \/ Restart

Spec == Init /\ [][Next]_vars

----------------------------------------------------------------------------

\* Until it expires a proof of work buys one room, however many threads
\* verify it at once, whatever the collection of expired entries removes and
\* even if the process restarts with an empty ledger (verifyChallenge).
SingleUseWhileValid ==
    \A k \in PowTokens : clock < exp[k] => accepted[k] <= 1

=============================================================================
