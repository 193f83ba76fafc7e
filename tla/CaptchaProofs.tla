--------------------------- MODULE CaptchaProofs ---------------------------
(***************************************************************************)
(* The proof-of-work ledger for any number of tokens and threads, any      *)
(* validity window and any number of restarts.                             *)
(***************************************************************************)
EXTENDS Captcha, TLAPS

\* Why the collection is safe: a thread's `now' is never ahead of the clock,
\* so what it collects has expired; and a token that is still valid, was
\* accepted and could be accepted again is in the ledger.
LedgerInv ==
    /\ \A v \in Verifiers : ver[v].now <= clock
    /\ \A v \in Verifiers : ver[v].token \in PowTokens => signed[ver[v].token] = epoch
    /\ \A k \in PowTokens : signed[k] <= epoch
    /\ \A k \in PowTokens : exp[k] = 0 => accepted[k] = 0
    /\ \A v \in Verifiers : ver[v].token \in PowTokens => exp[ver[v].token] # 0
    /\ \A k \in PowTokens :
          clock < exp[k] /\ signed[k] = epoch /\ accepted[k] # 0 => k \in seen

Inv == TypeOK /\ LedgerInv /\ SingleUseWhileValid

LEMMA InitInv == Init => Inv
  BY CaptchaAssumption
     DEF Init, Inv, TypeOK, LedgerInv, SingleUseWhileValid, NoCheck, Checked

LEMMA StepInv == Inv /\ [Next]_vars => Inv'
  <1> SUFFICES ASSUME Inv, [Next]_vars PROVE Inv'
    OBVIOUS
  <1> USE CaptchaAssumption DEF Inv, TypeOK, LedgerInv, SingleUseWhileValid
  <1>1. ASSUME NEW k \in PowTokens, IssueChallenge(k) PROVE Inv'
    BY <1>1 DEF IssueChallenge
  <1>2. ASSUME NEW v \in Verifiers, NEW k \in PowTokens, VerifyChecks(v, k) PROVE Inv'
    BY <1>2 DEF VerifyChecks, Checked
  <1>3. ASSUME NEW v \in Verifiers, VerifyLedger(v) PROVE Inv'
    BY <1>3 DEF VerifyLedger, GcLocked, NoCheck, Checked
  <1>4. CASE Tick
    BY <1>4 DEF Tick
  <1>5. CASE Restart
    BY <1>5 DEF Restart, NoCheck, Checked
  <1>6. CASE UNCHANGED vars
    BY <1>6 DEF vars
  <1> QED
    BY <1>1, <1>2, <1>3, <1>4, <1>5, <1>6 DEF Next, VerifyRefuses

\* Until it expires a proof of work is accepted at most once, for any number
\* of concurrent verifications and restarts (captcha.cpp verifyChallenge).
THEOREM ProofsAreSingleUse == Spec => []SingleUseWhileValid
  <1>1. Inv => SingleUseWhileValid
    BY DEF Inv
  <1> QED BY InitInv, StepInv, <1>1, PTL DEF Spec

=============================================================================
