-------------------------- MODULE OneTimeCodes_proofs --------------------------
(***************************************************************************)
(* Theorems about the codes that are used once, OtpCodes, RegistrationCodes *)
(* and GoogleSignIn: for any number of requests in flight, of documents,    *)
(* owners, devices, accounts and Google users.                              *)
(***************************************************************************)
EXTENDS MCOneTimeCodes, FiniteSetTheorems, TLAPS

USE OtpAssumption

-----------------------------------------------------------------------------
(* One-time passwords: types                                               *)

LEMMA OtpTypeInit == OtpInit => OtpTypeOK
<1> SUFFICES ASSUME OtpInit PROVE OtpTypeOK
  OBVIOUS
<1>1. IdleOtp \in OtpRequest /\ IdleOtp.pc = "idle"
  BY DEF IdleOtp, OtpRequest, Purposes
<1>2. otpReq \in [OtpRequests -> OtpRequest] /\ \A r \in OtpRequests : otpReq[r].pc = "idle"
  BY <1>1 DEF OtpInit
<1> DEFINE none == [purpose |-> "PasswordReset", failed |-> 0, valid |-> FALSE]
<1>3. none \in Otp
  BY DEF Otp, Purposes
<1> HIDE DEF none
<1>4. otps \in [Otps -> Otp]
  BY <1>3 DEF OtpInit, none
<1>5. otpCount \in 0..MaxOtps /\ uses \in [Otps -> Nat]
  BY DEF OtpInit
<1>7. verified \in BOOLEAN
  BY Zenon DEF OtpInit
<1>6. \A r \in OtpRequests : otpReq[r].pc \notin {"mail", "compare", "apply"}
  BY <1>2
<1> QED
  BY <1>2, <1>4, <1>5, <1>6, <1>7 DEF OtpTypeOK

\* A request that goes on, or ends, keeps the types of the requests.
LEMMA RequestTypes ==
    ASSUME OtpTypeOK, NEW r \in OtpRequests, NEW q \in OtpRequest,
           otpReq' = [otpReq EXCEPT ![r] = q], otpCount' \in 0..MaxOtps, otpCount' >= otpCount,
           q.pc \in {"mail", "compare", "apply"} => q.otp \in 1..otpCount'
    PROVE  /\ otpReq' \in [OtpRequests -> OtpRequest]
           /\ \A s \in OtpRequests : otpReq'[s].pc \in {"mail", "compare", "apply"} =>
                otpReq'[s].otp \in 1..otpCount'
<1>1. otpReq' \in [OtpRequests -> OtpRequest]
  BY DEF OtpTypeOK
<1>2. ASSUME NEW s \in OtpRequests, otpReq'[s].pc \in {"mail", "compare", "apply"}
      PROVE  otpReq'[s].otp \in 1..otpCount'
  <2>1. CASE s = r
    BY <1>2, <2>1 DEF OtpTypeOK
  <2>2. CASE s # r
    <3>1. otpReq'[s] = otpReq[s]
      BY <2>2 DEF OtpTypeOK
    <3>2. otpReq[s].otp \in 1..otpCount /\ otpCount \in 0..MaxOtps
      BY <1>2, <3>1 DEF OtpTypeOK
    <3> QED
      BY <3>1, <3>2
  <2> QED
    BY <2>1, <2>2
<1> QED
  BY <1>1, <1>2

\* Where a request goes, with what it remembers kept.
LEMMA GotoTypes ==
    ASSUME OtpTypeOK, NEW r \in OtpRequests,
           NEW pc \in {"idle", "invalidate", "create", "mail", "compare", "apply"},
           OtpGoto(r, pc), otpCount' = otpCount,
           pc \in {"mail", "compare", "apply"} =>
                otpReq[r].pc \in {"mail", "compare", "apply"}
    PROVE  /\ otpReq' \in [OtpRequests -> OtpRequest]
           /\ \A s \in OtpRequests : otpReq'[s].pc \in {"mail", "compare", "apply"} =>
                otpReq'[s].otp \in 1..otpCount'
<1> DEFINE q == [otpReq[r] EXCEPT !.pc = pc]
<1>1. q \in OtpRequest /\ q.pc = pc /\ q.otp = otpReq[r].otp
  BY DEF OtpTypeOK, OtpRequest
<1>2. otpReq' = [otpReq EXCEPT ![r] = q] /\ otpCount \in 0..MaxOtps
  BY DEF OtpGoto, OtpTypeOK
<1>3. q.pc \in {"mail", "compare", "apply"} => q.otp \in 1..otpCount'
  BY <1>1 DEF OtpTypeOK
<1> HIDE DEF q
<1>4. otpCount' \in 0..MaxOtps /\ otpCount' >= otpCount
  BY <1>2
<1> QED
  BY <1>1, <1>2, <1>3, <1>4, RequestTypes

LEMMA DoneTypes ==
    ASSUME OtpTypeOK, NEW r \in OtpRequests, OtpDone(r), otpCount' = otpCount
    PROVE  /\ otpReq' \in [OtpRequests -> OtpRequest]
           /\ \A s \in OtpRequests : otpReq'[s].pc \in {"mail", "compare", "apply"} =>
                otpReq'[s].otp \in 1..otpCount'
<1>1. IdleOtp \in OtpRequest /\ IdleOtp.pc = "idle"
  BY DEF IdleOtp, OtpRequest, Purposes
<1>2. otpCount' \in 0..MaxOtps /\ otpCount' >= otpCount
  BY DEF OtpTypeOK
<1>3. otpReq' = [otpReq EXCEPT ![r] = IdleOtp]
  BY DEF OtpDone
<1> QED
  BY <1>1, <1>2, <1>3, RequestTypes

\* The documents keep their type: invalidated, created or counted.
LEMMA DocumentTypes ==
    ASSUME OtpTypeOK, NEW c \in Otps
    PROVE  /\ [otps[c] EXCEPT !.valid = FALSE] \in Otp
           /\ [otps[c] EXCEPT !.failed = otps[c].failed + 1] \in Otp
           /\ otps[c] \in Otp /\ otps[c].failed \in Nat
<1> DEFINE no == FALSE
<1>1. otps[c] \in Otp /\ no \in BOOLEAN
  BY DEF OtpTypeOK
<1> HIDE DEF no
<1>2. otps[c].failed \in Nat /\ otps[c].purpose \in Purposes /\ otps[c].valid \in BOOLEAN
  BY <1>1, Zenon DEF Otp
<1>3. otps[c].failed + 1 \in Nat
  BY <1>2
<1>4. /\ [otps[c] EXCEPT !.valid = no] \in Otp
      /\ [otps[c] EXCEPT !.failed = otps[c].failed + 1] \in Otp
  BY <1>1, <1>3, Zenon DEF Otp
<1> QED
  BY <1>1, <1>2, <1>4 DEF no

LEMMA OtpTypeNext == OtpTypeOK /\ [OtpNext]_otpVars => OtpTypeOK'
<1> SUFFICES ASSUME OtpTypeOK, [OtpNext]_otpVars PROVE OtpTypeOK'
  OBVIOUS
<1> USE DEF Otps
<1>1. CASE UNCHANGED otpVars
  BY <1>1 DEF otpVars, OtpTypeOK
<1>2. ASSUME NEW r \in OtpRequests, NEW p \in Purposes, RequestOtp(r, p) PROVE OtpTypeOK'
  <2> DEFINE q == [IdleOtp EXCEPT !.pc = "invalidate", !.purpose = p]
  <2>1. q \in OtpRequest /\ q.pc = "invalidate"
    BY DEF IdleOtp, OtpRequest
  <2>2. /\ otpReq' = [otpReq EXCEPT ![r] = q]
        /\ UNCHANGED <<otps, otpCount, verified, uses>> /\ otpCount \in 0..MaxOtps
    BY <1>2 DEF RequestOtp, OtpTypeOK
  <2> HIDE DEF q
  <2> QED
    BY <2>1, <2>2, RequestTypes DEF OtpTypeOK
<1>3. ASSUME NEW r \in OtpRequests, InvalidateOtps(r) PROVE OtpTypeOK'
  <2>1. otps' \in [Otps -> Otp]
    BY <1>3, DocumentTypes DEF InvalidateOtps
  <2> QED
    BY <1>3, <2>1, GotoTypes DEF InvalidateOtps, OtpTypeOK
<1>4. ASSUME NEW r \in OtpRequests, CreateOtp(r) PROVE OtpTypeOK'
  <2> DEFINE q == [otpReq[r] EXCEPT !.pc = "mail", !.otp = otpCount + 1]
  <2>1. /\ otpCount + 1 \in Otps /\ otpCount' = otpCount + 1 /\ otpCount \in Nat
        /\ otpReq' = [otpReq EXCEPT ![r] = q] /\ UNCHANGED <<verified, uses>>
    BY <1>4 DEF CreateOtp, OtpTypeOK
  <2>2. q \in OtpRequest /\ q.pc = "mail" /\ q.otp = otpCount + 1
    BY <2>1 DEF OtpTypeOK, OtpRequest
  <2>3. otps' \in [Otps -> Otp]
    BY <1>4 DEF CreateOtp, OtpTypeOK, NewOtp, Otp, OtpRequest
  <2> HIDE DEF q
  <2>5. otpCount' \in 0..MaxOtps /\ otpCount' >= otpCount /\ otpCount + 1 \in 1..otpCount'
    BY <2>1
  <2>4. /\ otpReq' \in [OtpRequests -> OtpRequest]
        /\ \A s \in OtpRequests : otpReq'[s].pc \in {"mail", "compare", "apply"} =>
             otpReq'[s].otp \in 1..otpCount'
    BY <2>1, <2>2, <2>5, RequestTypes
  <2> QED
    BY <2>1, <2>3, <2>4, <2>5 DEF OtpTypeOK
<1>5. ASSUME NEW r \in OtpRequests, SendOtp(r) \/ AbortOtp(r) PROVE OtpTypeOK'
  BY <1>5, DoneTypes DEF SendOtp, AbortOtp, OtpTypeOK
<1>6. ASSUME NEW r \in OtpRequests, NEW p \in Purposes, NEW right \in BOOLEAN,
             FindOtp(r, p, right)
      PROVE  OtpTypeOK'
  <2>1. PICK c \in Usable(p) :
          otpReq' = [otpReq EXCEPT ![r] = [pc |-> "compare", purpose |-> p, otp |-> c, right |-> right]]
    BY <1>6 DEF FindOtp
  <2> DEFINE q == [pc |-> "compare", purpose |-> p, otp |-> c, right |-> right]
  <2>2. c \in 1..otpCount /\ otpCount \in 0..MaxOtps /\ UNCHANGED <<otps, otpCount, verified, uses>>
    BY <1>6, <2>1 DEF FindOtp, Usable, OtpTypeOK
  <2>3. q \in OtpRequest /\ q.otp = c
    BY <2>2 DEF OtpRequest
  <2>4. otpReq' = [otpReq EXCEPT ![r] = q]
    BY <2>1
  <2> HIDE DEF q
  <2> QED
    BY <2>2, <2>3, <2>4, RequestTypes DEF OtpTypeOK
<1>7. ASSUME NEW r \in OtpRequests, FailAttempt(r) PROVE OtpTypeOK'
  <2>1. otpReq[r].otp \in Otps /\ otpReq[r].otp \in 1..otpCount
    BY <1>7 DEF FailAttempt, OtpTypeOK
  <2>2. otps' \in [Otps -> Otp]
    BY <1>7, <2>1, DocumentTypes DEF FailAttempt, OtpTypeOK
  <2> QED
    BY <1>7, <2>2, DoneTypes DEF FailAttempt, OtpTypeOK
<1>8. ASSUME NEW r \in OtpRequests, ConsumeOtp(r) PROVE OtpTypeOK'
  <2>1. otpReq[r].otp \in Otps /\ otpReq[r].otp \in 1..otpCount
    BY <1>8 DEF ConsumeOtp, OtpTypeOK
  <2>2. otps' \in [Otps -> Otp]
    BY <1>8, <2>1, DocumentTypes DEF ConsumeOtp, OtpTypeOK
  <2>3. uses' \in [Otps -> Nat]
    BY <1>8, <2>1 DEF ConsumeOtp, OtpTypeOK
  <2> QED
    BY <1>8, <2>2, <2>3, GotoTypes DEF ConsumeOtp, OtpTypeOK
<1>9. ASSUME NEW r \in OtpRequests, ApplyOtp(r) PROVE OtpTypeOK'
  BY <1>9, DoneTypes DEF ApplyOtp, OtpTypeOK
<1>10. ASSUME NEW c \in Otps, ExpireOtps(c) PROVE OtpTypeOK'
  <2>1. otps' \in [Otps -> Otp]
    BY <1>10, DocumentTypes DEF ExpireOtps
  <2> QED
    BY <1>10, <2>1 DEF ExpireOtps, OtpTypeOK
<1> QED
  BY <1>1, <1>2, <1>3, <1>4, <1>5, <1>6, <1>7, <1>8, <1>9, <1>10 DEF OtpNext

\* The documents, the requests and what each remembers are always well formed.
THEOREM OtpTypeCorrect == OtpSpec => []OtpTypeOK
BY OtpTypeInit, OtpTypeNext, PTL DEF OtpSpec

-----------------------------------------------------------------------------
(* One-time passwords: codes and the requests in flight                    *)

Attempts == MaxFailedAttempts - 1 + Cardinality(OtpRequests)

\* A comparison under way may still fail or consume its code, and an issue under way will
\* still add one: what is counted and what is under way together stay within the bound.
\* A code that can still be used has served nobody.
CountsInv ==
    /\ \A c \in Otps :
        /\ otps[c].failed + Cardinality(Comparing(c)) <= Attempts
        /\ uses[c] + Cardinality(Comparing(c)) <= Cardinality(OtpRequests)
        /\ otps[c].valid \/ otpCount < c => uses[c] = 0
        /\ otpCount < c => otps[c].failed = 0
    /\ \A p \in Purposes :
        Cardinality(Usable(p)) + Cardinality(Creating(p)) <= Cardinality(OtpRequests)

LEMMA Sizes ==
    /\ Cardinality(OtpRequests) \in Nat /\ Attempts \in Nat
    /\ Cardinality(OtpRequests) <= Attempts
    /\ \A S \in SUBSET OtpRequests :
        /\ IsFiniteSet(S) /\ Cardinality(S) \in Nat
        /\ Cardinality(S) <= Cardinality(OtpRequests)
    /\ \A S \in SUBSET Otps : IsFiniteSet(S) /\ Cardinality(S) \in Nat
<1>1. Cardinality(OtpRequests) \in Nat
  BY FS_CardinalityType
<1>2. ASSUME NEW S \in SUBSET OtpRequests
      PROVE  /\ IsFiniteSet(S) /\ Cardinality(S) \in Nat
             /\ Cardinality(S) <= Cardinality(OtpRequests)
  BY FS_Subset, FS_CardinalityType
<1>3. IsFiniteSet(Otps)
  BY FS_Interval DEF Otps
<1>4. ASSUME NEW S \in SUBSET Otps PROVE IsFiniteSet(S) /\ Cardinality(S) \in Nat
  BY <1>3, FS_Subset, FS_CardinalityType
<1> QED
  BY <1>1, <1>2, <1>4 DEF Attempts

LEMMA Subsets ==
    /\ \A c : Comparing(c) \in SUBSET OtpRequests
    /\ \A p : Creating(p) \in SUBSET OtpRequests
    /\ OtpTypeOK => \A p : Usable(p) \in SUBSET Otps
BY DEF Comparing, Creating, Usable, OtpTypeOK, Otps

\* A code nobody compares anew, and that nobody uses or tries in vain, stays within the
\* bounds.
LEMMA CodeStays ==
    ASSUME OtpTypeOK, OtpTypeOK', CountsInv, NEW c \in Otps,
           Comparing(c)' \subseteq Comparing(c), otpCount' >= otpCount,
           uses'[c] = uses[c], otps'[c].failed = otps[c].failed,
           otps'[c].valid => otps[c].valid
    PROVE  /\ otps'[c].failed + Cardinality(Comparing(c)') <= Attempts
           /\ uses'[c] + Cardinality(Comparing(c)') <= Cardinality(OtpRequests)
           /\ otps'[c].valid \/ otpCount' < c => uses'[c] = 0
           /\ otpCount' < c => otps'[c].failed = 0
<1>1. Cardinality(Comparing(c)') <= Cardinality(Comparing(c))
  BY Sizes, Subsets, FS_Subset
<1>2. Cardinality(Comparing(c)') \in Nat /\ Cardinality(Comparing(c)) \in Nat
  BY <1>1, Sizes, Subsets
<1>3. otps[c].failed \in Nat /\ uses[c] \in Nat /\ otpCount \in Nat /\ otpCount' \in Nat
  <2>1. otps[c].failed \in Nat
    BY DocumentTypes
  <2>2. otpCount \in Nat /\ otpCount' \in Nat /\ uses[c] \in Nat
    BY DEF OtpTypeOK
  <2> QED
    BY <2>1, <2>2
<1>4. /\ otps[c].failed + Cardinality(Comparing(c)) <= Attempts
      /\ uses[c] + Cardinality(Comparing(c)) <= Cardinality(OtpRequests)
      /\ otps[c].valid \/ otpCount < c => uses[c] = 0
      /\ otpCount < c => otps[c].failed = 0
  BY DEF CountsInv
<1>5. otpCount' < c => otpCount < c
  BY <1>3 DEF Otps
<1>6. otps'[c].failed + Cardinality(Comparing(c)') <= Attempts
  BY <1>1, <1>2, <1>3, <1>4, Sizes
<1>7. uses'[c] + Cardinality(Comparing(c)') <= Cardinality(OtpRequests)
  BY <1>1, <1>2, <1>3, <1>4, Sizes
<1> QED
  BY <1>4, <1>5, <1>6, <1>7, Zenon

\* A purpose no code is issued for stays within its bound.
LEMMA PurposeStays ==
    ASSUME OtpTypeOK, CountsInv, NEW p \in Purposes,
           Usable(p)' \subseteq Usable(p), Creating(p)' \subseteq Creating(p)
    PROVE  Cardinality(Usable(p)') + Cardinality(Creating(p)') <= Cardinality(OtpRequests)
<1>1. /\ Cardinality(Usable(p)') <= Cardinality(Usable(p))
      /\ Cardinality(Creating(p)') <= Cardinality(Creating(p))
  BY Sizes, Subsets, FS_Subset
<1>2. /\ Cardinality(Usable(p)') \in Nat /\ Cardinality(Usable(p)) \in Nat
      /\ Cardinality(Creating(p)') \in Nat /\ Cardinality(Creating(p)) \in Nat
  <2>1. Usable(p)' \in SUBSET Otps /\ Creating(p)' \in SUBSET OtpRequests
    BY Subsets
  <2> QED
    BY <2>1, Sizes, Subsets
<1>3. Cardinality(Usable(p)) + Cardinality(Creating(p)) <= Cardinality(OtpRequests)
  BY DEF CountsInv
<1> QED
  BY <1>1, <1>2, <1>3, Sizes

LEMMA CountsInit == OtpInit => CountsInv
<1> SUFFICES ASSUME OtpInit PROVE CountsInv
  OBVIOUS
<1>1. \A r \in OtpRequests : otpReq[r].pc = "idle"
  BY DEF OtpInit, IdleOtp
<1>2. \A c : Comparing(c) = {}
  BY <1>1 DEF Comparing
<1>3. \A p : Creating(p) = {} /\ Usable(p) = {}
  BY <1>1 DEF Creating, Usable, OtpInit
<1>4. \A c \in Otps : otps[c].failed = 0 /\ uses[c] = 0
  BY DEF OtpInit
<1> QED
  BY <1>2, <1>3, <1>4, Sizes, FS_EmptySet DEF CountsInv

-----------------------------------------------------------------------------
(* One-time passwords: each step                                           *)

\* The steps that leave every code as it is, or past use, and start no comparison.
LEMMA CountsStay ==
    ASSUME OtpTypeOK, OtpTypeOK', CountsInv, UNCHANGED <<otpCount, uses>>,
           \A c \in Otps : /\ otps'[c].failed = otps[c].failed
                           /\ otps'[c].purpose = otps[c].purpose
                           /\ otps'[c].valid => otps[c].valid,
           \A r \in OtpRequests : otpReq'[r].pc \in {"compare", "create"} => otpReq'[r] = otpReq[r]
    PROVE  CountsInv'
<1>1. otpCount \in Nat
  BY DEF OtpTypeOK
<1>2. ASSUME NEW c \in Otps PROVE Comparing(c)' \subseteq Comparing(c)
  BY DEF Comparing
<1>3. ASSUME NEW p \in Purposes
      PROVE  Creating(p)' \subseteq Creating(p) /\ Usable(p)' \subseteq Usable(p)
  BY Subsets DEF Creating, Usable, OtpTypeOK, Otps
<1> QED
  BY <1>1, <1>2, <1>3, CodeStays, PurposeStays DEF CountsInv

\* A request whose step ends it, or takes it past its comparison, was the only change.
LEMMA OneRequest ==
    ASSUME OtpTypeOK, NEW r \in OtpRequests, OtpDone(r) \/ OtpGoto(r, "apply")
    PROVE  /\ otpReq'[r].pc \in {"idle", "apply"}
           /\ \A s \in OtpRequests \ {r} : otpReq'[s] = otpReq[s]
BY DEF OtpTypeOK, OtpDone, OtpGoto, IdleOtp, OtpRequest

\* The comparison that ends is one less under way.
LEMMA ComparisonEnds ==
    ASSUME OtpTypeOK, NEW r \in OtpRequests, NEW c, c = otpReq[r].otp,
           otpReq[r].pc = "compare", OtpDone(r) \/ OtpGoto(r, "apply")
    PROVE  /\ c \in Otps /\ c <= otpCount
           /\ Cardinality(Comparing(c)') = Cardinality(Comparing(c)) - 1
           /\ \A d \in Otps : Comparing(d)' \subseteq Comparing(d)
           /\ \A p \in Purposes : Creating(p)' \subseteq Creating(p)
<1>1. /\ otpReq'[r].pc \in {"idle", "apply"}
      /\ \A s \in OtpRequests \ {r} : otpReq'[s] = otpReq[s]
  BY OneRequest
<1>2. c \in Otps /\ c <= otpCount
  BY DEF OtpTypeOK, Otps
<1>3. Comparing(c)' = Comparing(c) \ {r} /\ r \in Comparing(c) /\ IsFiniteSet(Comparing(c))
  BY <1>1, Sizes, Subsets DEF Comparing
<1>4. Cardinality(Comparing(c) \ {r}) = Cardinality(Comparing(c)) - 1
  BY <1>3, FS_RemoveElement
<1> QED
  BY <1>1, <1>2, <1>3, <1>4 DEF Comparing, Creating

LEMMA CountsFail ==
    ASSUME OtpTypeOK, OtpTypeOK', CountsInv, NEW r \in OtpRequests, FailAttempt(r)
    PROVE  CountsInv'
<1> DEFINE c == otpReq[r].otp
<1>1. PICK d : d = c
  OBVIOUS
<1>2. /\ otpReq[r].pc = "compare" /\ OtpDone(r) /\ UNCHANGED <<otpCount, uses>>
      /\ otps' = [otps EXCEPT ![d] = [otps[d] EXCEPT !.failed = otps[d].failed + 1]]
  BY <1>1 DEF FailAttempt
<1> HIDE DEF c
<1>3. /\ d \in Otps /\ d <= otpCount /\ otpCount \in Nat
      /\ Cardinality(Comparing(d)') = Cardinality(Comparing(d)) - 1
      /\ \A e \in Otps : Comparing(e)' \subseteq Comparing(e)
      /\ \A p \in Purposes : Creating(p)' \subseteq Creating(p)
  <2>1. otpCount \in Nat
    BY DEF OtpTypeOK
  <2> QED
    BY <1>1, <1>2, <2>1, ComparisonEnds DEF c
<1>4. otps[d] \in Otp /\ otps[d].failed \in Nat
  BY <1>3, DocumentTypes
<1>5. /\ otps'[d].failed = otps[d].failed + 1 /\ otps'[d].valid = otps[d].valid
      /\ otps'[d].purpose = otps[d].purpose
      /\ \A e \in Otps \ {d} : otps'[e] = otps[e]
  BY <1>2, <1>3, <1>4 DEF OtpTypeOK, Otp
<1>6. ASSUME NEW e \in Otps
      PROVE  /\ otps'[e].failed + Cardinality(Comparing(e)') <= Attempts
             /\ uses'[e] + Cardinality(Comparing(e)') <= Cardinality(OtpRequests)
             /\ otps'[e].valid \/ otpCount' < e => uses'[e] = 0
             /\ otpCount' < e => otps'[e].failed = 0
  <2>1. CASE e # d
    BY <1>2, <1>3, <1>5, <2>1, CodeStays
  <2>2. CASE e = d
    <3>1. /\ otps[d].failed + Cardinality(Comparing(d)) <= Attempts
          /\ uses[d] + Cardinality(Comparing(d)) <= Cardinality(OtpRequests)
          /\ otps[d].valid \/ otpCount < d => uses[d] = 0
      BY <1>3 DEF CountsInv
    <3>2. /\ Cardinality(Comparing(d)) \in Nat /\ uses[d] \in Nat /\ ~(otpCount < d)
          /\ uses'[d] = uses[d] /\ otpCount' = otpCount
      <4>1. Cardinality(Comparing(d)) \in Nat
        BY Sizes, Subsets
      <4>2. uses[d] \in Nat
        BY <1>3 DEF OtpTypeOK
      <4>3. ~(otpCount < d)
        BY <1>3 DEF Otps
      <4> QED
        BY <1>2, <4>1, <4>2, <4>3
    <3>3. otps'[d].failed + Cardinality(Comparing(d)') <= Attempts
      BY <1>3, <1>4, <1>5, <3>1, <3>2, Sizes
    <3>4. uses'[d] + Cardinality(Comparing(d)') <= Cardinality(OtpRequests)
      BY <1>3, <3>1, <3>2, Sizes
    <3> QED
      BY <1>5, <2>2, <3>1, <3>2, <3>3, <3>4
  <2> QED
    BY <2>1, <2>2
<1>7. \A p \in Purposes : Usable(p)' \subseteq Usable(p)
  BY <1>2, <1>3, <1>5, Subsets DEF Usable, OtpTypeOK, Otps
<1> QED
  BY <1>3, <1>6, <1>7, PurposeStays DEF CountsInv

LEMMA CountsConsume ==
    ASSUME OtpTypeOK, OtpTypeOK', CountsInv, NEW r \in OtpRequests, ConsumeOtp(r)
    PROVE  CountsInv'
<1> DEFINE c == otpReq[r].otp  no == FALSE
<1>1. PICK d : d = c
  OBVIOUS
<1>2. /\ otpReq[r].pc = "compare" /\ OtpGoto(r, "apply") /\ otpCount' = otpCount
      /\ otps' = [otps EXCEPT ![d] = [otps[d] EXCEPT !.valid = no]]
      /\ uses' = [uses EXCEPT ![d] = uses[d] + 1]
  BY <1>1 DEF ConsumeOtp
<1> HIDE DEF c
<1>3. /\ d \in Otps /\ d <= otpCount /\ otpCount \in Nat
      /\ Cardinality(Comparing(d)') = Cardinality(Comparing(d)) - 1
      /\ \A e \in Otps : Comparing(e)' \subseteq Comparing(e)
      /\ \A p \in Purposes : Creating(p)' \subseteq Creating(p)
  <2>1. otpCount \in Nat
    BY DEF OtpTypeOK
  <2> QED
    BY <1>1, <1>2, <2>1, ComparisonEnds DEF c
<1>4. otps[d] \in Otp /\ otps[d].failed \in Nat /\ uses[d] \in Nat
  <2>1. uses[d] \in Nat
    BY <1>3 DEF OtpTypeOK
  <2> QED
    BY <1>3, <2>1, DocumentTypes
<1>5. /\ otps'[d].failed = otps[d].failed /\ ~otps'[d].valid
      /\ otps'[d].purpose = otps[d].purpose
      /\ \A e \in Otps \ {d} : otps'[e] = otps[e]
  <2> HIDE DEF no
  <2>1. otps'[d] = [otps[d] EXCEPT !.valid = no] /\ \A e \in Otps \ {d} : otps'[e] = otps[e]
    BY <1>2, <1>3 DEF OtpTypeOK
  <2>2. otps'[d].failed = otps[d].failed /\ otps'[d].valid = no /\ otps'[d].purpose = otps[d].purpose
    BY <1>4, <2>1, Zenon DEF Otp
  <2>3. ~no
    BY DEF no
  <2> QED
    BY <2>1, <2>2, <2>3, Zenon
<1>6. uses'[d] = uses[d] + 1 /\ \A e \in Otps \ {d} : uses'[e] = uses[e]
  BY <1>2, <1>3 DEF OtpTypeOK
<1>7. ASSUME NEW e \in Otps
      PROVE  /\ otps'[e].failed + Cardinality(Comparing(e)') <= Attempts
             /\ uses'[e] + Cardinality(Comparing(e)') <= Cardinality(OtpRequests)
             /\ otps'[e].valid \/ otpCount' < e => uses'[e] = 0
             /\ otpCount' < e => otps'[e].failed = 0
  <2>1. CASE e # d
    BY <1>2, <1>3, <1>5, <1>6, <2>1, CodeStays
  <2>2. CASE e = d
    <3>1. /\ otps[d].failed + Cardinality(Comparing(d)) <= Attempts
          /\ uses[d] + Cardinality(Comparing(d)) <= Cardinality(OtpRequests)
      BY <1>3 DEF CountsInv
    <3>2. Cardinality(Comparing(d)) \in Nat /\ ~(otpCount' < d)
      <4>1. Cardinality(Comparing(d)) \in Nat
        BY Sizes, Subsets
      <4> QED
        BY <1>2, <1>3, <4>1 DEF Otps
    <3>3. otps'[d].failed + Cardinality(Comparing(d)') <= Attempts
      BY <1>3, <1>4, <1>5, <3>1, <3>2, Sizes
    <3>4. uses'[d] + Cardinality(Comparing(d)') <= Cardinality(OtpRequests)
      BY <1>3, <1>4, <1>6, <3>1, <3>2, Sizes
    <3> QED
      BY <1>5, <2>2, <3>2, <3>3, <3>4, Zenon
  <2> QED
    BY <2>1, <2>2
<1>8. \A p \in Purposes : Usable(p)' \subseteq Usable(p)
  BY <1>2, <1>3, <1>5, Subsets DEF Usable, OtpTypeOK, Otps
<1> QED
  BY <1>3, <1>7, <1>8, PurposeStays DEF CountsInv

LEMMA CountsFind ==
    ASSUME OtpTypeOK, OtpTypeOK', CountsInv, NEW r \in OtpRequests, NEW p \in Purposes,
           NEW right \in BOOLEAN, FindOtp(r, p, right)
    PROVE  CountsInv'
<1>1. PICK c \in Usable(p) :
        /\ otps[c].failed < MaxFailedAttempts
        /\ otpReq' = [otpReq EXCEPT ![r] = [pc |-> "compare", purpose |-> p, otp |-> c, right |-> right]]
  BY DEF FindOtp
<1>2. UNCHANGED <<otps, otpCount, verified, uses>> /\ otpReq[r].pc = "idle"
  BY DEF FindOtp
<1>3. /\ otpReq'[r].pc = "compare" /\ otpReq'[r].otp = c
      /\ \A s \in OtpRequests \ {r} : otpReq'[s] = otpReq[s]
  BY <1>1 DEF OtpTypeOK
<1>4. c \in Otps /\ otps[c].valid /\ c <= otpCount /\ otpCount \in Nat
  BY DEF Usable, OtpTypeOK, Otps
<1>5. \A d \in Otps \ {c} : Comparing(d)' \subseteq Comparing(d)
  BY <1>3 DEF Comparing
<1>6. /\ otps'[c].failed + Cardinality(Comparing(c)') <= Attempts
      /\ uses'[c] + Cardinality(Comparing(c)') <= Cardinality(OtpRequests)
  <2>1. otps[c].failed \in Nat /\ uses[c] = 0
    BY <1>4, DocumentTypes DEF CountsInv
  <2>2. /\ Cardinality(Comparing(c)') <= Cardinality(OtpRequests)
        /\ Cardinality(Comparing(c)') \in Nat
    <3>1. Comparing(c)' \in SUBSET OtpRequests
      BY DEF Comparing
    <3> QED
      BY <3>1, Sizes
  <2> QED
    BY <1>1, <1>2, <2>1, <2>2, Sizes DEF Attempts
<1>7. \A d \in Otps :
        /\ otps'[d].failed + Cardinality(Comparing(d)') <= Attempts
        /\ uses'[d] + Cardinality(Comparing(d)') <= Cardinality(OtpRequests)
        /\ otps'[d].valid \/ otpCount' < d => uses'[d] = 0
        /\ otpCount' < d => otps'[d].failed = 0
  <2>1. TAKE d \in Otps
  <2>2. CASE d # c
    BY <1>2, <1>4, <1>5, <2>2, CodeStays
  <2>3. CASE d = c
    BY <1>2, <1>6, <2>3 DEF CountsInv
  <2> QED
    BY <2>2, <2>3
<1>8. \A q \in Purposes : Creating(q)' \subseteq Creating(q) /\ Usable(q)' \subseteq Usable(q)
  BY <1>2, <1>3 DEF Creating, Usable
<1> QED
  BY <1>7, <1>8, PurposeStays DEF CountsInv

LEMMA CountsInvalidate ==
    ASSUME OtpTypeOK, OtpTypeOK', CountsInv, NEW r \in OtpRequests, InvalidateOtps(r)
    PROVE  CountsInv'
<1> DEFINE p == otpReq[r].purpose
<1>1. PICK q : q = p
  OBVIOUS
<1>2. /\ otpReq[r].pc = "invalidate" /\ OtpGoto(r, "create") /\ UNCHANGED <<otpCount, uses>>
      /\ otps' = [c \in Otps |-> IF c \in Usable(q) THEN [otps[c] EXCEPT !.valid = FALSE] ELSE otps[c]]
      /\ q \in Purposes
  BY <1>1 DEF InvalidateOtps, OtpTypeOK, OtpRequest
<1>3. /\ otpReq'[r].pc = "create" /\ otpReq'[r].purpose = q
      /\ \A s \in OtpRequests \ {r} : otpReq'[s] = otpReq[s]
  BY <1>1, <1>2 DEF OtpTypeOK, OtpGoto, OtpRequest
<1>4. ASSUME NEW c \in Otps
      PROVE  /\ otps'[c].failed = otps[c].failed /\ otps'[c].purpose = otps[c].purpose
             /\ otps'[c].valid => otps[c].valid
             /\ c \in Usable(q) => ~otps'[c].valid
  <2> DEFINE no == FALSE
  <2>1. otps[c] \in Otp /\ otps'[c] = IF c \in Usable(q) THEN [otps[c] EXCEPT !.valid = no] ELSE otps[c]
    BY <1>2, DocumentTypes
  <2>2. ~no
    OBVIOUS
  <2> HIDE DEF no
  <2>3. CASE c \in Usable(q)
    <3>1. /\ otps'[c].failed = otps[c].failed /\ otps'[c].purpose = otps[c].purpose
          /\ otps'[c].valid = no
      BY <2>1, <2>3, Zenon DEF Otp
    <3> QED
      BY <2>2, <3>1, Zenon
  <2> QED
    BY <2>1, <2>3
<1>5. \A c \in Otps : Comparing(c)' \subseteq Comparing(c)
  BY <1>3 DEF Comparing
<1>6. \A s \in Purposes \ {q} : Creating(s)' \subseteq Creating(s) /\ Usable(s)' \subseteq Usable(s)
  BY <1>2, <1>3, <1>4 DEF Creating, Usable, Otps, OtpTypeOK
<1>7. Usable(q)' = {}
  BY <1>2, <1>4 DEF Usable, Otps, OtpTypeOK
<1>8. Cardinality(Usable(q)') + Cardinality(Creating(q)') <= Cardinality(OtpRequests)
  <2>1. Creating(q)' \in SUBSET OtpRequests
    BY DEF Creating
  <2>2. Cardinality(Creating(q)') \in Nat /\ Cardinality(Creating(q)') <= Cardinality(OtpRequests)
    BY <2>1, Sizes
  <2>3. Cardinality(Usable(q)') = 0
    BY <1>7, FS_EmptySet
  <2> QED
    BY <2>2, <2>3, Sizes
<1>9. \A s \in Purposes : Cardinality(Usable(s)') + Cardinality(Creating(s)') <= Cardinality(OtpRequests)
  BY <1>6, <1>8, PurposeStays
<1>10. otpCount' >= otpCount /\ \A c \in Otps : uses'[c] = uses[c]
  BY <1>2 DEF OtpTypeOK
<1> QED
  BY <1>4, <1>5, <1>9, <1>10, CodeStays DEF CountsInv

LEMMA CountsCreate ==
    ASSUME OtpTypeOK, OtpTypeOK', CountsInv, NEW r \in OtpRequests, CreateOtp(r)
    PROVE  CountsInv'
<1>1. PICK q : q = otpReq[r].purpose
  OBVIOUS
<1>2. PICK n : n = otpCount + 1
  OBVIOUS
<1>3. /\ otpReq[r].pc = "create" /\ otpCount' = n /\ uses' = uses /\ q \in Purposes
      /\ otps' = [otps EXCEPT ![n] = NewOtp(q)]
      /\ otpReq' = [otpReq EXCEPT ![r] = [otpReq[r] EXCEPT !.pc = "mail", !.otp = n]]
  BY <1>1, <1>2 DEF CreateOtp, OtpTypeOK, OtpRequest
<1>4. n \in Otps /\ otpCount \in Nat /\ otpCount < n
  BY <1>2 DEF CreateOtp, OtpTypeOK, Otps
<1>5. /\ otpReq'[r].pc = "mail" /\ \A s \in OtpRequests \ {r} : otpReq'[s] = otpReq[s]
      /\ \A c \in Otps \ {n} : otps'[c] = otps[c]
      /\ otps'[n] = NewOtp(q) /\ NewOtp(q).failed = 0 /\ NewOtp(q).purpose = q
  BY <1>3, <1>4 DEF OtpTypeOK, OtpRequest, NewOtp
<1>6. \A c \in Otps : Comparing(c)' \subseteq Comparing(c)
  BY <1>5 DEF Comparing
<1>7. Comparing(n) = {}
  BY <1>4 DEF Comparing, OtpTypeOK
<1>8. ASSUME NEW c \in Otps
      PROVE  /\ otps'[c].failed + Cardinality(Comparing(c)') <= Attempts
             /\ uses'[c] + Cardinality(Comparing(c)') <= Cardinality(OtpRequests)
             /\ otps'[c].valid \/ otpCount' < c => uses'[c] = 0
             /\ otpCount' < c => otps'[c].failed = 0
  <2>1. CASE c # n
    <3>1. otps'[c] = otps[c] /\ uses'[c] = uses[c] /\ otpCount' >= otpCount
      BY <1>2, <1>3, <1>4, <1>5, <2>1
    <3> QED
      BY <1>6, <3>1, CodeStays
  <2>2. CASE c = n
    <3>1. Cardinality(Comparing(n)') = 0 /\ uses[n] = 0
      <4>1. Comparing(n)' = {}
        BY <1>4, <1>6, <1>7
      <4> QED
        BY <1>4, <4>1, FS_EmptySet DEF CountsInv
    <3>2. otps'[n].failed = 0 /\ uses'[n] = 0
      BY <1>3, <1>5, <3>1
    <3> QED
      BY <2>2, <3>1, <3>2, Sizes
  <2> QED
    BY <2>1, <2>2
<1>9. ASSUME NEW p \in Purposes
      PROVE  Cardinality(Usable(p)') + Cardinality(Creating(p)') <= Cardinality(OtpRequests)
  <2>1. CASE p # q
    <3>1. Usable(p)' \subseteq Usable(p) /\ Creating(p)' \subseteq Creating(p)
      BY <1>2, <1>3, <1>4, <1>5, <2>1 DEF Usable, Creating, Otps
    <3> QED
      BY <3>1, PurposeStays
  <2>2. CASE p = q
    <3>1. Usable(q)' \subseteq Usable(q) \cup {n}
      BY <1>2, <1>3, <1>4, <1>5 DEF Usable, Otps
    <3>2. Creating(q)' = Creating(q) \ {r} /\ r \in Creating(q)
      BY <1>1, <1>3, <1>5 DEF Creating
    <3>3. Cardinality(Creating(q)') = Cardinality(Creating(q)) - 1
      BY <3>2, Sizes, Subsets, FS_RemoveElement
    <3>4. Cardinality(Usable(q)') <= Cardinality(Usable(q)) + 1 /\ Cardinality(Usable(q)') \in Nat
      <4>1. IsFiniteSet(Usable(q)) /\ Cardinality(Usable(q)) \in Nat
        BY Sizes, Subsets
      <4>5. /\ IsFiniteSet(Usable(q) \cup {n})
            /\ Cardinality(Usable(q) \cup {n}) =
                 IF n \in Usable(q) THEN Cardinality(Usable(q)) ELSE Cardinality(Usable(q)) + 1
        BY <4>1, FS_AddElement
      <4>2. /\ IsFiniteSet(Usable(q) \cup {n}) /\ Cardinality(Usable(q) \cup {n}) \in Nat
            /\ Cardinality(Usable(q) \cup {n}) <= Cardinality(Usable(q)) + 1
        BY <4>1, <4>5
      <4>3. IsFiniteSet(Usable(q)') /\ Cardinality(Usable(q)') <= Cardinality(Usable(q) \cup {n})
        BY <3>1, <4>2, FS_Subset
      <4>4. Cardinality(Usable(q)') \in Nat
        BY <4>3, FS_CardinalityType
      <4> QED
        BY <4>1, <4>2, <4>3, <4>4
    <3>5. Cardinality(Usable(q)) + Cardinality(Creating(q)) <= Cardinality(OtpRequests)
      BY <1>3 DEF CountsInv
    <3>6. Cardinality(Usable(q)) \in Nat /\ Cardinality(Creating(q)) \in Nat
      BY Sizes, Subsets
    <3>7. Cardinality(Usable(q)') + Cardinality(Creating(q)') <= Cardinality(OtpRequests)
      BY <3>3, <3>4, <3>5, <3>6, Sizes
    <3> QED
      BY <2>2, <3>7
  <2> QED
    BY <2>1, <2>2
<1> QED
  BY <1>8, <1>9 DEF CountsInv

-----------------------------------------------------------------------------
(* One-time passwords: the bounds                                          *)

LEMMA CountsNext == OtpTypeOK /\ CountsInv /\ [OtpNext]_otpVars => CountsInv'
<1> SUFFICES ASSUME OtpTypeOK, CountsInv, [OtpNext]_otpVars PROVE CountsInv'
  OBVIOUS
<1>1. OtpTypeOK'
  BY OtpTypeNext
<1>2. CASE UNCHANGED otpVars
  BY <1>2 DEF otpVars, CountsInv, Comparing, Creating, Usable
<1>3. ASSUME NEW r \in OtpRequests, NEW p \in Purposes, RequestOtp(r, p) PROVE CountsInv'
  <2>1. otpReq'[r].pc = "invalidate" /\ \A s \in OtpRequests \ {r} : otpReq'[s] = otpReq[s]
    BY <1>3 DEF RequestOtp, IdleOtp, OtpTypeOK
  <2> QED
    BY <1>1, <1>3, <2>1, CountsStay DEF RequestOtp
<1>4. ASSUME NEW r \in OtpRequests, SendOtp(r) \/ AbortOtp(r) \/ ApplyOtp(r) PROVE CountsInv'
  <2>1. OtpDone(r) /\ UNCHANGED <<otps, otpCount, uses>>
    BY <1>4 DEF SendOtp, AbortOtp, ApplyOtp
  <2>2. otpReq'[r].pc = "idle" /\ \A s \in OtpRequests \ {r} : otpReq'[s] = otpReq[s]
    BY <2>1 DEF OtpDone, IdleOtp, OtpTypeOK
  <2> QED
    BY <1>1, <2>1, <2>2, CountsStay
<1>5. ASSUME NEW c \in Otps, ExpireOtps(c) PROVE CountsInv'
  <2>1. ASSUME NEW d \in Otps
        PROVE  /\ otps'[d].failed = otps[d].failed /\ otps'[d].purpose = otps[d].purpose
               /\ otps'[d].valid => otps[d].valid
    <3> DEFINE no == FALSE
    <3>1. otps[d] \in Otp /\ otps'[d] = IF d <= c THEN [otps[d] EXCEPT !.valid = no] ELSE otps[d]
      BY <1>5, DocumentTypes DEF ExpireOtps
    <3>2. ~no
      OBVIOUS
    <3> HIDE DEF no
    <3>3. CASE d <= c
      <4>1. /\ otps'[d].failed = otps[d].failed /\ otps'[d].purpose = otps[d].purpose
            /\ otps'[d].valid = no
        BY <3>1, <3>3, Zenon DEF Otp
      <4> QED
        BY <3>2, <4>1, Zenon
    <3> QED
      BY <3>1, <3>3
  <2> QED
    BY <1>1, <1>5, <2>1, CountsStay DEF ExpireOtps
<1> QED
  BY <1>1, <1>2, <1>3, <1>4, <1>5, CountsFail, CountsConsume, CountsFind, CountsInvalidate,
     CountsCreate DEF OtpNext

LEMMA CodesCorrect == OtpSpec => [](OtpTypeOK /\ CountsInv)
<1>1. OtpInit => OtpTypeOK /\ CountsInv
  BY OtpTypeInit, CountsInit
<1>2. OtpTypeOK /\ CountsInv /\ [OtpNext]_otpVars => (OtpTypeOK /\ CountsInv)'
  BY OtpTypeNext, CountsNext
<1> QED
  BY <1>1, <1>2, PTL DEF OtpSpec

\* However many attempts at a code overlap, it has at most one wrong one more than the limit
\* allows for each other request in flight.
THEOREM GuessesStayBounded == OtpSpec => []GuessesBounded
<1>1. OtpTypeOK /\ CountsInv => GuessesBounded
  <2> SUFFICES ASSUME OtpTypeOK, CountsInv, NEW c \in Otps PROVE otps[c].failed <= Attempts
    BY DEF GuessesBounded, Attempts
  <2>1. otps[c].failed \in Nat
    BY DocumentTypes
  <2>2. Cardinality(Comparing(c)) \in Nat
    BY Sizes, Subsets
  <2> QED
    BY <2>1, <2>2, Sizes DEF CountsInv
<1> QED
  BY <1>1, CodesCorrect, PTL

\* A code is marked whatever became of it since it was found: it serves more requests than
\* one only if they were in flight together, and each of them once.
THEOREM UsesStayBounded == OtpSpec => []UsesBounded
<1>1. OtpTypeOK /\ CountsInv => UsesBounded
  <2> SUFFICES ASSUME OtpTypeOK, CountsInv, NEW c \in Otps
               PROVE  uses[c] <= Cardinality(OtpRequests)
    BY DEF UsesBounded
  <2>1. uses[c] \in Nat /\ Cardinality(Comparing(c)) \in Nat
    BY Sizes, Subsets DEF OtpTypeOK
  <2> QED
    BY <2>1, Sizes DEF CountsInv
<1> QED
  BY <1>1, CodesCorrect, PTL

\* Each request for a code leaves at most one usable code of its purpose beside those of the
\* requests in flight with it.
THEOREM UsableStayBounded == OtpSpec => []UsableBounded
<1>1. OtpTypeOK /\ CountsInv => UsableBounded
  <2> SUFFICES ASSUME OtpTypeOK, CountsInv, NEW p \in Purposes
               PROVE  Cardinality(Usable(p)) <= Cardinality(OtpRequests)
    BY DEF UsableBounded
  <2>1. Cardinality(Usable(p)) \in Nat /\ Cardinality(Creating(p)) \in Nat
    BY Sizes, Subsets
  <2> QED
    BY <2>1, Sizes DEF CountsInv
<1> QED
  BY <1>1, CodesCorrect, PTL

HIDE OtpAssumption

-----------------------------------------------------------------------------
(* Registration codes: types                                               *)

\* The one field of a document that an update changes.
LEMMA RegDocuments ==
    /\ \A x \in RegCode :
              /\ [x EXCEPT !.active = FALSE] \in RegCode
              /\ [x EXCEPT !.active = FALSE].owner = x.owner
              /\ ~[x EXCEPT !.active = FALSE].active
    /\ \A x \in Device :
              /\ [x EXCEPT !.live = FALSE] \in Device
              /\ [x EXCEPT !.live = FALSE].owner = x.owner
              /\ ~[x EXCEPT !.live = FALSE].live
<1>1. ASSUME NEW x \in RegCode
      PROVE  /\ [x EXCEPT !.active = FALSE] \in RegCode
             /\ [x EXCEPT !.active = FALSE].owner = x.owner
             /\ ~[x EXCEPT !.active = FALSE].active
  BY Zenon DEF RegCode
<1>2. ASSUME NEW x \in Device
      PROVE  /\ [x EXCEPT !.live = FALSE] \in Device
             /\ [x EXCEPT !.live = FALSE].owner = x.owner
             /\ ~[x EXCEPT !.live = FALSE].live
  BY Zenon DEF Device
<1> QED
  BY <1>1, <1>2

LEMMA RegTypeInit == RegInit => RegTypeOK
<1> SUFFICES ASSUME RegInit PROVE RegTypeOK
  OBVIOUS
<1> USE RegAssumption
<1>1. IdleReg \in RegRequest /\ IdleReg.pc = "idle"
  BY DEF IdleReg, RegRequest
<1>2. IdleReg.owner \in Owners /\ IdleReg.mac \in Macs
  BY <1>1 DEF RegRequest
<1> DEFINE noCode == [owner |-> IdleReg.owner, active |-> FALSE]
           noDevice == [mac |-> IdleReg.mac, owner |-> IdleReg.owner, live |-> FALSE]
<1>3. noCode \in RegCode /\ noDevice \in Device /\ ~noDevice.live
  BY <1>2, Zenon DEF RegCode, Device
<1>4. regCodes = [c \in Codes |-> noCode] /\ devices = [d \in Devices |-> noDevice]
  BY DEF RegInit
<1> HIDE DEF noCode, noDevice
<1>5. regCodes \in [Codes -> RegCode] /\ devices \in [Devices -> Device]
  BY <1>3, <1>4
<1>6. \A d \in Devices : ~devices[d].live
  BY <1>3, <1>4, Zenon
<1>7. regReq \in [RegRequests -> RegRequest] /\ \A r \in RegRequests : regReq[r].pc = "idle"
  BY <1>1 DEF RegInit
<1>8. /\ codeCount \in 0..MaxCodes /\ deviceCount \in 0..MaxDevices /\ aborts \in 0..MaxRegAborts
      /\ deviceTokens \subseteq DeviceToken /\ registered \in [Codes -> Nat]
  BY DEF RegInit
<1> QED
  BY <1>5, <1>6, <1>7, <1>8 DEF RegTypeOK

\* A request that goes on, or ends, keeps the types of the requests.
LEMMA RegRequestTypes ==
    ASSUME RegTypeOK, NEW r \in RegRequests, NEW q \in RegRequest,
           regReq' = [regReq EXCEPT ![r] = q], deviceCount' \in 0..MaxDevices,
           deviceCount' >= deviceCount,
           q.pc \in {"save", "mark", "token", "store", "delete"} => q.device \in 1..deviceCount'
    PROVE  /\ regReq' \in [RegRequests -> RegRequest]
           /\ \A s \in RegRequests : regReq'[s].pc \in {"save", "mark", "token", "store", "delete"} =>
                regReq'[s].device \in 1..deviceCount'
<1>1. regReq' \in [RegRequests -> RegRequest]
  BY DEF RegTypeOK
<1>2. ASSUME NEW s \in RegRequests, regReq'[s].pc \in {"save", "mark", "token", "store", "delete"}
      PROVE  regReq'[s].device \in 1..deviceCount'
  <2>1. CASE s = r
    BY <1>2, <2>1 DEF RegTypeOK
  <2>2. CASE s # r
    <3>1. regReq'[s] = regReq[s] /\ deviceCount \in Nat
      BY <2>2 DEF RegTypeOK
    <3>2. regReq[s].device \in 1..deviceCount
      BY <1>2, <3>1 DEF RegTypeOK
    <3> QED
      BY <3>1, <3>2
  <2> QED
    BY <2>1, <2>2
<1> QED
  BY <1>1, <1>2

\* Where a request goes and which device it has; what else it remembers is kept.
LEMMA RegGotoTypes ==
    ASSUME RegTypeOK, NEW r \in RegRequests, NEW d \in 0..MaxDevices,
           NEW pc \in {"device", "save", "create", "mark", "token", "store"},
           RegGoto(r, pc, d), deviceCount' \in 0..MaxDevices, deviceCount' >= deviceCount,
           pc \in {"save", "mark", "token", "store"} => d \in 1..deviceCount'
    PROVE  /\ regReq' \in [RegRequests -> RegRequest]
           /\ \A s \in RegRequests : regReq'[s].pc \in {"save", "mark", "token", "store", "delete"} =>
                regReq'[s].device \in 1..deviceCount'
<1> DEFINE q == [regReq[r] EXCEPT !.pc = pc, !.device = d]
<1>1. q \in RegRequest /\ q.pc = pc /\ q.device = d
  BY DEF RegTypeOK, RegRequest
<1>2. regReq' = [regReq EXCEPT ![r] = q]
  BY DEF RegGoto
<1> HIDE DEF q
<1> QED
  BY <1>1, <1>2, RegRequestTypes

LEMMA RegDoneTypes ==
    ASSUME RegTypeOK, NEW r \in RegRequests, RegDone(r),
           deviceCount' \in 0..MaxDevices, deviceCount' >= deviceCount
    PROVE  /\ regReq' \in [RegRequests -> RegRequest]
           /\ \A s \in RegRequests : regReq'[s].pc \in {"save", "mark", "token", "store", "delete"} =>
                regReq'[s].device \in 1..deviceCount'
<1>1. IdleReg \in RegRequest /\ IdleReg.pc = "idle"
  BY RegAssumption DEF IdleReg, RegRequest
<1> QED
  BY <1>1, RegRequestTypes DEF RegDone

LEMMA RegBeginTypes ==
    ASSUME RegTypeOK, NEW r \in RegRequests, NEW pc \in {"issue", "owner", "create", "delete"},
           NEW c \in 0..MaxCodes, NEW o \in Owners, NEW m \in Macs, NEW d \in 0..MaxDevices,
           RegBegin(r, pc, c, o, m, d), deviceCount' = deviceCount,
           pc = "delete" => d \in 1..deviceCount
    PROVE  /\ regReq' \in [RegRequests -> RegRequest]
           /\ \A s \in RegRequests : regReq'[s].pc \in {"save", "mark", "token", "store", "delete"} =>
                regReq'[s].device \in 1..deviceCount'
<1> DEFINE q == [pc |-> pc, code |-> c, owner |-> o, mac |-> m, device |-> d]
<1>1. q \in RegRequest /\ q.pc = pc /\ q.device = d
  BY DEF RegRequest
<1>2. regReq' = [regReq EXCEPT ![r] = q] /\ deviceCount' \in 0..MaxDevices /\ deviceCount' >= deviceCount
  BY DEF RegBegin, RegTypeOK
<1> HIDE DEF q
<1> QED
  BY <1>1, <1>2, RegRequestTypes

\* The history of a code's registrations.
LEMMA RegistersTypes ==
    ASSUME RegTypeOK, NEW r \in RegRequests, Registers(r)
    PROVE  /\ registered' \in [Codes -> Nat]
           /\ \A c \in Codes : registered'[c] = IF c = regReq[r].code THEN registered[c] + 1
                                                ELSE registered[c]
BY DEF Registers, RegTypeOK, RegRequest, Codes

LEMMA RegTypeNext == RegTypeOK /\ [RegNext]_regVars => RegTypeOK'
<1> SUFFICES ASSUME RegTypeOK, [RegNext]_regVars PROVE RegTypeOK'
  OBVIOUS
<1> DEFINE Referring(s) == regReq'[s].pc \in {"save", "mark", "token", "store", "delete"} =>
                             regReq'[s].device \in 1..deviceCount'
<1>0. /\ deviceCount \in 0..MaxDevices /\ deviceCount \in Nat /\ MaxDevices \in Nat
      /\ codeCount \in 0..MaxCodes /\ MaxCodes \in Nat
      /\ \A d \in Devices : devices[d].live => d \in 1..deviceCount
  BY RegAssumption DEF RegTypeOK, Devices
<1>1. CASE UNCHANGED regVars
  BY <1>1 DEF regVars, RegTypeOK
<1>2. ASSUME NEW r \in RegRequests, NEW o \in Owners, ConsumeEarlierCodes(r, o) PROVE RegTypeOK'
  <2>1. regCodes' \in [Codes -> RegCode]
    BY <1>2, RegDocuments DEF ConsumeEarlierCodes, RegTypeOK
  <2>2. IdleReg.mac \in Macs
    BY RegAssumption DEF IdleReg
  <2>3. regReq' \in [RegRequests -> RegRequest] /\ \A s \in RegRequests : Referring(s)
    <3>1. 0 \in 0..MaxCodes /\ 0 \in 0..MaxDevices
      BY <1>0
    <3> QED
      BY <1>2, <2>2, <3>1, RegBeginTypes DEF ConsumeEarlierCodes
  <2> QED
    BY <1>2, <2>1, <2>3 DEF ConsumeEarlierCodes, RegTypeOK
<1>3. ASSUME NEW r \in RegRequests, CreateCode(r) PROVE RegTypeOK'
  <2>1. regReq' \in [RegRequests -> RegRequest] /\ \A s \in RegRequests : Referring(s)
    BY <1>0, <1>3, RegDoneTypes DEF CreateCode
  <2>2. [owner |-> regReq[r].owner, active |-> TRUE] \in RegCode
    BY DEF RegTypeOK, RegRequest, RegCode
  <2>3. codeCount' \in 0..MaxCodes
    BY <1>0, <1>3 DEF CreateCode
  <2>4. regCodes' \in [Codes -> RegCode]
    BY <1>3, <2>2 DEF CreateCode, RegTypeOK
  <2> QED
    BY <1>3, <2>1, <2>3, <2>4 DEF CreateCode, RegTypeOK
<1>4. ASSUME NEW r \in RegRequests, NEW c \in Codes, NEW m \in Macs, FindCode(r, c, m)
      PROVE  RegTypeOK'
  <2>1. c \in 0..MaxCodes /\ 0 \in 0..MaxDevices /\ regCodes[c].owner \in Owners
    BY <1>0 DEF Codes, RegTypeOK, RegCode
  <2>2. regReq' \in [RegRequests -> RegRequest] /\ \A s \in RegRequests : Referring(s)
    BY <1>4, <2>1, RegBeginTypes DEF FindCode
  <2> QED
    BY <1>4, <2>2 DEF FindCode, RegTypeOK
<1>5. ASSUME NEW r \in RegRequests, NEW o \in Owners, NEW m \in Macs, RegisterDevice(r, o, m)
      PROVE  RegTypeOK'
  <2>1. 0 \in 0..MaxCodes /\ 0 \in 0..MaxDevices
    BY <1>0
  <2>2. regReq' \in [RegRequests -> RegRequest] /\ \A s \in RegRequests : Referring(s)
    BY <1>5, <2>1, RegBeginTypes DEF RegisterDevice
  <2> QED
    BY <1>5, <2>2 DEF RegisterDevice, RegTypeOK
<1>6. ASSUME NEW r \in RegRequests, NEW d \in Devices, DeleteTokens(r, d) PROVE RegTypeOK'
  <2>1. /\ 0 \in 0..MaxCodes /\ d \in 0..MaxDevices /\ d \in 1..deviceCount
        /\ devices[d].owner \in Owners /\ devices[d].mac \in Macs
    BY <1>0, <1>6 DEF DeleteTokens, Devices, RegTypeOK, Device
  <2>2. regReq' \in [RegRequests -> RegRequest] /\ \A s \in RegRequests : Referring(s)
    BY <1>6, <2>1, RegBeginTypes DEF DeleteTokens
  <2>3. deviceTokens' \subseteq DeviceToken
    BY <1>6 DEF DeleteTokens, RegTypeOK
  <2> QED
    BY <1>6, <2>2, <2>3 DEF DeleteTokens, RegTypeOK
<1>7. ASSUME NEW r \in RegRequests, CheckOwner(r) PROVE RegTypeOK'
  <2>1. regReq' \in [RegRequests -> RegRequest] /\ \A s \in RegRequests : Referring(s)
    BY <1>0, <1>7, RegGotoTypes DEF CheckOwner
  <2> QED
    BY <1>7, <2>1 DEF CheckOwner, RegTypeOK
<1>8. ASSUME NEW r \in RegRequests, FindDevice(r) PROVE RegTypeOK'
  <2>1. deviceCount' = deviceCount /\ 0 \in 0..MaxDevices
    BY <1>0, <1>8 DEF FindDevice
  <2>2. \/ RegDone(r) \/ RegGoto(r, "create", 0)
        \/ \E d \in WithMac(regReq[r].mac) : RegGoto(r, "save", d)
    BY <1>8, Zenon DEF FindDevice
  <2>3. \A d \in WithMac(regReq[r].mac) : d \in 1..deviceCount /\ d \in 0..MaxDevices
    BY <1>0 DEF WithMac, Devices
  <2>4. regReq' \in [RegRequests -> RegRequest] /\ \A s \in RegRequests : Referring(s)
    <3>1. CASE RegDone(r)
      BY <1>0, <2>1, <3>1, RegDoneTypes
    <3>2. CASE RegGoto(r, "create", 0)
      BY <1>0, <2>1, <3>2, RegGotoTypes
    <3>3. ASSUME NEW d \in WithMac(regReq[r].mac), RegGoto(r, "save", d)
          PROVE  regReq' \in [RegRequests -> RegRequest] /\ \A s \in RegRequests : Referring(s)
      BY <1>0, <2>1, <2>3, <3>3, RegGotoTypes
    <3> QED
      BY <2>2, <3>1, <3>2, <3>3
  <2> QED
    BY <1>8, <2>4 DEF FindDevice, RegTypeOK
<1>9. ASSUME NEW r \in RegRequests, SaveDevice(r) PROVE RegTypeOK'
  <2>1. regReq[r].device \in 1..deviceCount /\ regReq[r].device \in 0..MaxDevices
    BY <1>0, <1>9 DEF SaveDevice, RegTypeOK
  <2>2. deviceCount' = deviceCount
    BY <1>9 DEF SaveDevice
  <2>3. /\ RegGoto(r, "mark", regReq[r].device) \/ RegDone(r)
        /\ Registers(r) \/ UNCHANGED registered
    BY <1>9, Zenon DEF SaveDevice
  <2>4. regReq' \in [RegRequests -> RegRequest] /\ \A s \in RegRequests : Referring(s)
    BY <1>0, <2>1, <2>2, <2>3, RegGotoTypes, RegDoneTypes
  <2>5. registered' \in [Codes -> Nat]
    BY <2>3, RegistersTypes DEF RegTypeOK
  <2> QED
    BY <1>9, <2>4, <2>5 DEF SaveDevice, RegTypeOK
<1>10. ASSUME NEW r \in RegRequests, CreateDevice(r) PROVE RegTypeOK'
  <2> DEFINE d == deviceCount + 1
             new == [mac |-> regReq[r].mac, owner |-> regReq[r].owner, live |-> TRUE]
  <2>1. CASE /\ d \in Devices /\ devices' = [devices EXCEPT ![d] = new] /\ deviceCount' = d
             /\ RegDone(r) \/ RegGoto(r, "mark", d)
             /\ Registers(r)
    <3>1. new \in Device
      BY DEF RegTypeOK, RegRequest, Device
    <3>2. devices' \in [Devices -> Device] /\ \A e \in Devices \ {d} : devices'[e] = devices[e]
      BY <2>1, <3>1 DEF RegTypeOK
    <3>3. d \in 0..MaxDevices /\ d \in 1..d /\ d >= deviceCount
      BY <1>0, <2>1 DEF Devices
    <3> HIDE DEF new
    <3>4. regReq' \in [RegRequests -> RegRequest] /\ \A s \in RegRequests : Referring(s)
      BY <2>1, <3>3, RegGotoTypes, RegDoneTypes
    <3>5. \A e \in Devices : devices'[e].live => e <= deviceCount'
      BY <1>0, <2>1, <3>2 DEF Devices
    <3>6. registered' \in [Codes -> Nat]
      BY <2>1, RegistersTypes
    <3> QED
      BY <1>10, <2>1, <3>2, <3>3, <3>4, <3>5, <3>6 DEF CreateDevice, RegTypeOK
  <2>2. CASE RegDone(r) /\ UNCHANGED <<devices, deviceCount, registered>>
    <3>1. regReq' \in [RegRequests -> RegRequest] /\ \A s \in RegRequests : Referring(s)
      BY <1>0, <2>2, RegDoneTypes
    <3> QED
      BY <1>10, <2>2, <3>1 DEF CreateDevice, RegTypeOK
  <2> HIDE DEF d
  <2> QED
    BY <1>10, <2>1, <2>2, Zenon DEF CreateDevice, d
<1>11. ASSUME NEW r \in RegRequests, ConsumeCode(r) PROVE RegTypeOK'
  <2>1. regReq[r].device \in 1..deviceCount /\ regReq[r].device \in 0..MaxDevices
    BY <1>0, <1>11 DEF ConsumeCode, RegTypeOK
  <2>2. regReq' \in [RegRequests -> RegRequest] /\ \A s \in RegRequests : Referring(s)
    BY <1>0, <1>11, <2>1, RegGotoTypes DEF ConsumeCode
  <2>3. regCodes' \in [Codes -> RegCode]
    BY <1>11, RegDocuments DEF ConsumeCode, RegTypeOK
  <2> QED
    BY <1>11, <2>2, <2>3 DEF ConsumeCode, RegTypeOK
<1>12. ASSUME NEW r \in RegRequests, ReadForToken(r) PROVE RegTypeOK'
  <2>1. regReq[r].device \in 1..deviceCount /\ regReq[r].device \in 0..MaxDevices
    BY <1>0, <1>12 DEF ReadForToken, RegTypeOK
  <2>2. /\ deviceCount' = deviceCount
        /\ RegGoto(r, "store", regReq[r].device) \/ RegDone(r)
    BY <1>12, Zenon DEF ReadForToken
  <2>3. regReq' \in [RegRequests -> RegRequest] /\ \A s \in RegRequests : Referring(s)
    BY <1>0, <2>1, <2>2, RegGotoTypes, RegDoneTypes
  <2> QED
    BY <1>12, <2>3 DEF ReadForToken, RegTypeOK
<1>13. ASSUME NEW r \in RegRequests, StoreToken(r) PROVE RegTypeOK'
  <2>1. [device |-> regReq[r].device, for |-> regReq[r].owner] \in DeviceToken
    <3>1. regReq[r].device \in Devices
      BY <1>0, <1>13 DEF StoreToken, RegTypeOK, Devices
    <3> QED
      BY <3>1 DEF RegTypeOK, RegRequest, DeviceToken
  <2>2. regReq' \in [RegRequests -> RegRequest] /\ \A s \in RegRequests : Referring(s)
    BY <1>0, <1>13, RegDoneTypes DEF StoreToken
  <2>3. deviceTokens' \subseteq DeviceToken
    BY <1>13, <2>1 DEF StoreToken, RegTypeOK
  <2> QED
    BY <1>13, <2>2, <2>3 DEF StoreToken, RegTypeOK
<1>14. ASSUME NEW r \in RegRequests, DeleteDocument(r) PROVE RegTypeOK'
  <2>1. regReq[r].device \in Devices
    BY <1>0, <1>14 DEF DeleteDocument, RegTypeOK, Devices
  <2>2. regReq' \in [RegRequests -> RegRequest] /\ \A s \in RegRequests : Referring(s)
    BY <1>0, <1>14, RegDoneTypes DEF DeleteDocument
  <2>3. devices' \in [Devices -> Device] /\ \A d \in Devices : devices'[d].live => devices[d].live
    BY <1>14, <2>1, RegDocuments DEF DeleteDocument, RegTypeOK
  <2> QED
    BY <1>14, <2>2, <2>3 DEF DeleteDocument, RegTypeOK
<1>15. ASSUME NEW r \in RegRequests, AbortRegistration(r) PROVE RegTypeOK'
  <2>1. regReq' \in [RegRequests -> RegRequest] /\ \A s \in RegRequests : Referring(s)
    BY <1>0, <1>15, RegDoneTypes DEF AbortRegistration
  <2>2. aborts' \in 0..MaxRegAborts
    BY <1>15, RegAssumption DEF AbortRegistration, RegTypeOK
  <2> QED
    BY <1>15, <2>1, <2>2 DEF AbortRegistration, RegTypeOK
<1>16. ASSUME NEW t \in deviceTokens, RevokeToken(t) PROVE RegTypeOK'
  BY <1>16 DEF RevokeToken, RegTypeOK
<1>17. ASSUME NEW c \in Codes, ExpireCode(c) PROVE RegTypeOK'
  <2>1. regCodes' \in [Codes -> RegCode]
    BY <1>17, RegDocuments DEF ExpireCode, RegTypeOK
  <2> QED
    BY <1>17, <2>1 DEF ExpireCode, RegTypeOK
<1> QED
  BY <1>1, <1>2, <1>3, <1>4, <1>5, <1>6, <1>7, <1>8, <1>9, <1>10, <1>11, <1>12, <1>13, <1>14,
     <1>15, <1>16, <1>17 DEF RegNext

\* The codes, devices and tokens, the requests and what each remembers are always well
\* formed: a request that goes on with a device has one that exists or existed.
THEOREM RegTypeCorrect == RegSpec => []RegTypeOK
BY RegTypeInit, RegTypeNext, PTL DEF RegSpec

-----------------------------------------------------------------------------
(* Registration codes: tokens and owners                                   *)

\* What a request that has its device relies on across its awaits: a document keeps its
\* owner for as long as it is in the collection, whoever saves or deletes it meanwhile.
OwnerInv ==
    /\ \A t \in deviceTokens : t.device \in 1..deviceCount /\ devices[t.device].owner = t.for
    /\ \A r \in RegRequests : regReq[r].pc \in {"save", "mark", "token", "store"} =>
            devices[regReq[r].device].owner = regReq[r].owner

\* What a step does to the requests: to one of them, or to none.
LEMMA RegOthers ==
    ASSUME RegTypeOK, NEW r \in RegRequests
    PROVE  /\ \A pc, d : RegGoto(r, pc, d) =>
                /\ regReq'[r].pc = pc /\ regReq'[r].device = d
                /\ regReq'[r].code = regReq[r].code /\ regReq'[r].owner = regReq[r].owner
                /\ \A s \in RegRequests \ {r} : regReq'[s] = regReq[s]
           /\ RegDone(r) =>
                /\ regReq'[r].pc = "idle" /\ regReq'[r].code = 0
                /\ \A s \in RegRequests \ {r} : regReq'[s] = regReq[s]
           /\ \A pc, c, o, m, d : RegBegin(r, pc, c, o, m, d) =>
                /\ regReq'[r].pc = pc /\ regReq'[r].code = c /\ regReq[r].pc = "idle"
                /\ \A s \in RegRequests \ {r} : regReq'[s] = regReq[s]
<1>1. regReq \in [RegRequests -> RegRequest]
  BY DEF RegTypeOK
<1>2. ASSUME NEW pc, NEW d, RegGoto(r, pc, d)
      PROVE  /\ regReq'[r].pc = pc /\ regReq'[r].device = d
             /\ regReq'[r].code = regReq[r].code /\ regReq'[r].owner = regReq[r].owner
             /\ \A s \in RegRequests \ {r} : regReq'[s] = regReq[s]
  <2>1. regReq'[r] = [regReq[r] EXCEPT !.pc = pc, !.device = d]
    BY <1>1, <1>2 DEF RegGoto
  <2> QED
    BY <1>1, <1>2, <2>1 DEF RegGoto, RegRequest
<1>3. ASSUME RegDone(r)
      PROVE  /\ regReq'[r].pc = "idle" /\ regReq'[r].code = 0
             /\ \A s \in RegRequests \ {r} : regReq'[s] = regReq[s]
  BY <1>1, <1>3 DEF RegDone, IdleReg
<1>4. ASSUME NEW pc, NEW c, NEW o, NEW m, NEW d, RegBegin(r, pc, c, o, m, d)
      PROVE  /\ regReq'[r].pc = pc /\ regReq'[r].code = c /\ regReq[r].pc = "idle"
             /\ \A s \in RegRequests \ {r} : regReq'[s] = regReq[s]
  BY <1>1, <1>4 DEF RegBegin
<1> QED
  BY <1>2, <1>3, <1>4

\* Steps that leave the owner of every document alone, add no token, and bring no request to
\* where it relies on its device.
LEMMA OwnersStay ==
    ASSUME RegTypeOK, OwnerInv, deviceTokens' \subseteq deviceTokens, deviceCount' \in Nat,
           deviceCount' >= deviceCount,
           \A d \in 1..deviceCount : devices'[d].owner = devices[d].owner,
           \A r \in RegRequests : regReq'[r].pc \in {"save", "mark", "token", "store"} =>
                /\ regReq[r].pc \in {"save", "mark", "token", "store"}
                /\ regReq'[r].device = regReq[r].device /\ regReq'[r].owner = regReq[r].owner
    PROVE  OwnerInv'
<1>1. deviceCount \in Nat
  BY DEF RegTypeOK
<1>2. ASSUME NEW t \in deviceTokens'
      PROVE  t.device \in 1..deviceCount' /\ devices'[t.device].owner = t.for
  BY <1>1, <1>2 DEF OwnerInv
<1>3. ASSUME NEW r \in RegRequests, regReq'[r].pc \in {"save", "mark", "token", "store"}
      PROVE  devices'[regReq'[r].device].owner = regReq'[r].owner
  BY <1>3 DEF OwnerInv, RegTypeOK
<1> QED
  BY <1>2, <1>3 DEF OwnerInv

LEMMA OwnerNext == RegTypeOK /\ OwnerInv /\ [RegNext]_regVars => OwnerInv'
<1> SUFFICES ASSUME RegTypeOK, OwnerInv, [RegNext]_regVars PROVE OwnerInv'
  OBVIOUS
<1> DEFINE Relying(s) == regReq[s].pc \in {"save", "mark", "token", "store"}
<1>0. /\ deviceCount \in 0..MaxDevices /\ deviceCount \in Nat /\ MaxDevices \in Nat
      /\ \A d \in Devices : devices[d].live => d \in 1..deviceCount
  BY RegAssumption DEF RegTypeOK, Devices
<1>1. CASE UNCHANGED regVars
  BY <1>1 DEF regVars, OwnerInv
<1>2. ASSUME UNCHANGED <<devices, deviceCount>>, deviceTokens' \subseteq deviceTokens,
             NEW r \in RegRequests,
             \/ RegDone(r) \/ \E d : RegGoto(r, "device", d)
             \/ \E pc \in {"issue", "owner", "create", "delete"} :
                  \E c, o, m, d : RegBegin(r, pc, c, o, m, d)
      PROVE  OwnerInv'
  <2>1. /\ regReq'[r].pc \in {"idle", "device", "issue", "owner", "create", "delete"}
        /\ \A s \in RegRequests \ {r} : regReq'[s] = regReq[s]
    BY <1>2, RegOthers
  <2> QED
    BY <1>0, <1>2, <2>1, OwnersStay
<1>3. ASSUME NEW r \in RegRequests, NEW o \in Owners, ConsumeEarlierCodes(r, o) PROVE OwnerInv'
  BY <1>2, <1>3 DEF ConsumeEarlierCodes
<1>4. ASSUME NEW r \in RegRequests,
             CreateCode(r) \/ CheckOwner(r) \/ AbortRegistration(r)
      PROVE  OwnerInv'
  BY <1>2, <1>4 DEF CreateCode, CheckOwner, AbortRegistration
<1>5. ASSUME NEW r \in RegRequests, NEW c \in Codes, NEW m \in Macs, FindCode(r, c, m)
      PROVE  OwnerInv'
  BY <1>2, <1>5 DEF FindCode
<1>6. ASSUME NEW r \in RegRequests, NEW o \in Owners, NEW m \in Macs, RegisterDevice(r, o, m)
      PROVE  OwnerInv'
  BY <1>2, <1>6 DEF RegisterDevice
<1>7. ASSUME NEW r \in RegRequests, NEW d \in Devices, DeleteTokens(r, d) PROVE OwnerInv'
  BY <1>2, <1>7 DEF DeleteTokens
<1>8. ASSUME NEW r \in RegRequests, FindDevice(r) PROVE OwnerInv'
  <2>1. UNCHANGED <<devices, deviceCount, deviceTokens>>
    BY <1>8 DEF FindDevice
  <2>2. ASSUME NEW d \in WithMac(regReq[r].mac), devices[d].owner = regReq[r].owner,
               RegGoto(r, "save", d)
        PROVE  OwnerInv'
    <3>1. /\ regReq'[r].device = d /\ regReq'[r].owner = regReq[r].owner
          /\ \A s \in RegRequests \ {r} : regReq'[s] = regReq[s]
      BY <2>2, RegOthers
    <3> QED
      BY <2>1, <2>2, <3>1 DEF OwnerInv
  <2>3. ASSUME RegGoto(r, "create", 0) PROVE OwnerInv'
    <3>1. regReq'[r].pc = "create" /\ \A s \in RegRequests \ {r} : regReq'[s] = regReq[s]
      BY <2>3, RegOthers
    <3> QED
      BY <2>1, <3>1 DEF OwnerInv
  <2>4. CASE RegDone(r)
    BY <1>2, <2>1, <2>4
  <2> QED
    BY <1>8, <2>2, <2>3, <2>4 DEF FindDevice
<1>9. ASSUME UNCHANGED <<devices, deviceCount, deviceTokens>>, NEW r \in RegRequests, Relying(r),
             NEW pc \in {"mark", "token", "store"}, RegGoto(r, pc, regReq[r].device)
      PROVE  OwnerInv'
  <2>1. /\ regReq'[r].device = regReq[r].device /\ regReq'[r].owner = regReq[r].owner
        /\ \A s \in RegRequests \ {r} : regReq'[s] = regReq[s]
    BY <1>9, RegOthers
  <2> QED
    BY <1>0, <1>9, <2>1, OwnersStay
<1>10. ASSUME NEW r \in RegRequests, SaveDevice(r) \/ ConsumeCode(r) \/ ReadForToken(r)
       PROVE  OwnerInv'
  <2>1. UNCHANGED <<devices, deviceCount, deviceTokens>> /\ Relying(r)
    BY <1>10 DEF SaveDevice, ConsumeCode, ReadForToken
  <2>2. RegDone(r) \/ \E pc \in {"mark", "token", "store"} : RegGoto(r, pc, regReq[r].device)
    BY <1>10, Zenon DEF SaveDevice, ConsumeCode, ReadForToken
  <2> QED
    BY <1>2, <1>9, <2>1, <2>2
<1>11. ASSUME NEW r \in RegRequests, CreateDevice(r) PROVE OwnerInv'
  <2> DEFINE d == deviceCount + 1
             new == [mac |-> regReq[r].mac, owner |-> regReq[r].owner, live |-> TRUE]
  <2>0. UNCHANGED deviceTokens
    BY <1>11 DEF CreateDevice
  <2>1. CASE RegDone(r) /\ UNCHANGED <<devices, deviceCount>>
    BY <1>2, <2>0, <2>1
  <2>2. CASE /\ d \in Devices /\ devices' = [devices EXCEPT ![d] = new] /\ deviceCount' = d
             /\ RegDone(r) \/ RegGoto(r, "mark", d)
    <3>1. /\ devices'[d].owner = regReq[r].owner
          /\ \A e \in 1..deviceCount : devices'[e].owner = devices[e].owner
      BY <1>0, <2>2 DEF RegTypeOK, Devices
    <3>2. \A s \in RegRequests \ {r} : regReq'[s] = regReq[s]
      BY <2>2, RegOthers
    <3>3. /\ regReq'[r].pc \in {"idle", "mark"}
          /\ regReq'[r].pc = "mark" =>
               regReq'[r].device = d /\ regReq'[r].owner = regReq[r].owner
      BY <2>2, RegOthers
    <3>4. \A s \in RegRequests : Relying(s) => regReq[s].device \in 1..deviceCount
      BY DEF RegTypeOK
    <3>5. deviceCount' = deviceCount + 1
      BY <2>2
    <3> HIDE DEF d, new
    <3>6. ASSUME NEW s \in RegRequests, Relying(s)'
          PROVE  devices'[regReq'[s].device].owner = regReq'[s].owner
      BY <3>1, <3>2, <3>3, <3>4, <3>6 DEF OwnerInv
    <3>7. ASSUME NEW t \in deviceTokens'
          PROVE  t.device \in 1..deviceCount' /\ devices'[t.device].owner = t.for
      BY <1>0, <2>0, <3>1, <3>5, <3>7 DEF OwnerInv
    <3> QED
      BY <3>6, <3>7 DEF OwnerInv
  <2> HIDE DEF d
  <2> QED
    BY <1>11, <2>1, <2>2, Zenon DEF CreateDevice, d
<1>12. ASSUME NEW r \in RegRequests, StoreToken(r) PROVE OwnerInv'
  <2>1. regReq'[r].pc = "idle" /\ \A s \in RegRequests \ {r} : regReq'[s] = regReq[s]
    BY <1>12, RegOthers DEF StoreToken
  <2>2. /\ regReq[r].device \in 1..deviceCount
        /\ devices[regReq[r].device].owner = regReq[r].owner
    BY <1>12 DEF StoreToken, RegTypeOK, OwnerInv
  <2>3. UNCHANGED <<devices, deviceCount>>
    BY <1>12 DEF StoreToken
  <2>4. ASSUME NEW t \in deviceTokens'
        PROVE  t.device \in 1..deviceCount /\ devices[t.device].owner = t.for
    BY <1>12, <2>2, <2>4 DEF StoreToken, OwnerInv
  <2> QED
    BY <2>1, <2>3, <2>4 DEF OwnerInv
<1>13. ASSUME NEW r \in RegRequests, DeleteDocument(r) PROVE OwnerInv'
  <2>1. regReq[r].device \in Devices
    BY <1>0, <1>13 DEF DeleteDocument, RegTypeOK, Devices
  <2>2. \A d \in Devices : devices'[d].owner = devices[d].owner
    BY <1>13, <2>1, RegDocuments DEF DeleteDocument, RegTypeOK
  <2>3. regReq'[r].pc = "idle" /\ \A s \in RegRequests \ {r} : regReq'[s] = regReq[s]
    BY <1>13, RegOthers DEF DeleteDocument
  <2>4. 1..deviceCount \subseteq Devices
    BY <1>0 DEF Devices
  <2>5. UNCHANGED <<deviceTokens, deviceCount>>
    BY <1>13 DEF DeleteDocument
  <2>6. deviceTokens' \subseteq deviceTokens
    BY <2>5
  <2> QED
    BY <1>0, <2>2, <2>3, <2>4, <2>5, <2>6, OwnersStay
<1>14. ASSUME NEW t \in deviceTokens, RevokeToken(t) PROVE OwnerInv'
  BY <1>14 DEF RevokeToken, OwnerInv
<1>15. ASSUME NEW c \in Codes, ExpireCode(c) PROVE OwnerInv'
  BY <1>15 DEF ExpireCode, OwnerInv
<1> QED
  BY <1>1, <1>3, <1>4, <1>5, <1>6, <1>7, <1>8, <1>10, <1>11, <1>12, <1>13, <1>14, <1>15
     DEF RegNext

\* Whatever happened to the device between the look-up of the code and the storing of the
\* token, in however many requests at a time: every token opens a device of the owner whose
\* code, or whose own request, it was given for.
THEOREM TokensStayWithOwner == RegSpec => []TokensForOwner
<1>1. RegInit => OwnerInv
  BY DEF RegInit, IdleReg, OwnerInv
<1>2. OwnerInv => TokensForOwner
  BY DEF OwnerInv, TokensForOwner
<1> QED
  BY <1>1, <1>2, OwnerNext, RegTypeCorrect, PTL DEF RegSpec

-----------------------------------------------------------------------------
(* Registration codes: how often one registers                             *)

\* Requests that have looked the code up and not registered yet, and those that have and
\* not marked the code yet.
Presenting(c) == {r \in RegRequests : /\ regReq[r].code = c
                                      /\ regReq[r].pc \in {"owner", "device", "save", "create"}}
Marking(c) == {r \in RegRequests : regReq[r].code = c /\ regReq[r].pc = "mark"}

\* A code still to be found has been registered with only by requests that are about to
\* mark it or ended early; one that has been looked up is registered with again at most once
\* by each request that did.
CodeBounds(c) ==
    /\ regCodes[c].active => registered[c] <= aborts + Cardinality(Marking(c))
    /\ registered[c] + Cardinality(Presenting(c)) <= Cardinality(RegRequests) + aborts
    /\ codeCount < c => registered[c] = 0 /\ ~regCodes[c].active

RegCountsInv ==
    /\ \A c \in Codes : CodeBounds(c)
    /\ \A r \in RegRequests : regReq[r].code <= codeCount

LEMMA RegSizes ==
    /\ Cardinality(RegRequests) \in Nat
    /\ \A S \in SUBSET RegRequests :
        /\ IsFiniteSet(S) /\ Cardinality(S) \in Nat
        /\ Cardinality(S) <= Cardinality(RegRequests)
        /\ \A T \in SUBSET S : Cardinality(T) <= Cardinality(S)
<1>1. Cardinality(RegRequests) \in Nat
  BY RegAssumption, FS_CardinalityType
<1>2. ASSUME NEW S \in SUBSET RegRequests
      PROVE  /\ IsFiniteSet(S) /\ Cardinality(S) \in Nat
             /\ Cardinality(S) <= Cardinality(RegRequests)
  BY RegAssumption, FS_Subset, FS_CardinalityType
<1>3. ASSUME NEW S \in SUBSET RegRequests, NEW T \in SUBSET S
      PROVE  Cardinality(T) <= Cardinality(S)
  BY <1>2, FS_Subset
<1> QED
  BY <1>1, <1>2, <1>3

\* No request is in both sets.
LEMMA RegApart ==
    ASSUME NEW S \in SUBSET RegRequests, NEW T \in SUBSET RegRequests, S \cap T = {}
    PROVE  Cardinality(S) + Cardinality(T) <= Cardinality(RegRequests)
<1>1. /\ IsFiniteSet(S) /\ IsFiniteSet(T) /\ S \cup T \in SUBSET RegRequests
      /\ Cardinality(S) \in Nat /\ Cardinality(T) \in Nat
  BY RegSizes
<1>2. Cardinality(S \cup T) = Cardinality(S) + Cardinality(T) - Cardinality(S \cap T)
  BY <1>1, FS_Union
<1>3. Cardinality(S \cap T) = 0
  BY FS_EmptySet
<1>4. Cardinality(S \cup T) <= Cardinality(RegRequests)
  BY <1>1, RegSizes
<1> QED
  BY <1>1, <1>2, <1>3, <1>4

LEMMA RegSubsets ==
    \A c : /\ Presenting(c) \in SUBSET RegRequests /\ Marking(c) \in SUBSET RegRequests
           /\ Presenting(c)' \in SUBSET RegRequests /\ Marking(c)' \in SUBSET RegRequests
           /\ Presenting(c)' \cap Marking(c)' = {}
BY DEF Presenting, Marking

\* A code that nobody registers with and nobody looks up anew.
LEMMA BoundsStay ==
    ASSUME RegTypeOK, NEW c \in Codes, CodeBounds(c), registered'[c] = registered[c],
           aborts' = aborts, codeCount' >= codeCount, codeCount' \in Nat,
           regCodes'[c].active => regCodes[c].active /\ Marking(c) \subseteq Marking(c)',
           Presenting(c)' \subseteq Presenting(c)
    PROVE  CodeBounds(c)'
<1>1. /\ registered[c] \in Nat /\ aborts \in Nat /\ codeCount \in Nat /\ c \in Nat
      /\ Cardinality(Marking(c)) \in Nat /\ Cardinality(Marking(c)') \in Nat
      /\ Cardinality(Presenting(c)) \in Nat /\ Cardinality(Presenting(c)') \in Nat
      /\ Cardinality(RegRequests) \in Nat
  BY RegSizes, RegSubsets DEF RegTypeOK, Codes
<1>2. regCodes'[c].active => registered'[c] <= aborts' + Cardinality(Marking(c)')
  <2> SUFFICES ASSUME regCodes'[c].active
               PROVE  registered'[c] <= aborts' + Cardinality(Marking(c)')
    OBVIOUS
  <2>1. Cardinality(Marking(c)) <= Cardinality(Marking(c)')
    BY RegSizes, RegSubsets
  <2>2. registered[c] <= aborts + Cardinality(Marking(c))
    BY DEF CodeBounds
  <2> QED
    BY <1>1, <2>1, <2>2
<1>3. registered'[c] + Cardinality(Presenting(c)') <= Cardinality(RegRequests) + aborts'
  <2>1. Cardinality(Presenting(c)') <= Cardinality(Presenting(c))
    BY RegSizes, RegSubsets
  <2>2. registered[c] + Cardinality(Presenting(c)) <= Cardinality(RegRequests) + aborts
    BY DEF CodeBounds
  <2> QED
    BY <1>1, <2>1, <2>2
<1>4. codeCount' < c => registered'[c] = 0 /\ ~regCodes'[c].active
  <2>1. codeCount' < c => codeCount < c
    BY <1>1
  <2> QED
    BY <2>1 DEF CodeBounds
<1> QED
  BY <1>2, <1>3, <1>4 DEF CodeBounds

\* A code that can still be found: whoever presents it is not among those that mark it.
LEMMA BoundsOfActive ==
    ASSUME RegTypeOK', NEW c \in Codes, c <= codeCount',
           registered'[c] <= aborts' + Cardinality(Marking(c)')
    PROVE  CodeBounds(c)'
<1>1. /\ registered'[c] \in Nat /\ aborts' \in Nat /\ codeCount' \in Nat /\ c \in Nat
      /\ Cardinality(Marking(c)') \in Nat /\ Cardinality(Presenting(c)') \in Nat
      /\ Cardinality(RegRequests) \in Nat
  BY RegSizes, RegSubsets DEF RegTypeOK, Codes
<1>2. Cardinality(Presenting(c)') + Cardinality(Marking(c)') <= Cardinality(RegRequests)
  BY RegSubsets, RegApart
<1>3. registered'[c] + Cardinality(Presenting(c)') <= Cardinality(RegRequests) + aborts'
  BY <1>1, <1>2
<1>4. ~(codeCount' < c)
  BY <1>1
<1> QED
  BY <1>3, <1>4 DEF CodeBounds

\* A request that presents the code registers with it and goes on to mark it.
LEMMA BoundsOfRegistered ==
    ASSUME RegTypeOK, RegTypeOK', RegCountsInv, NEW r \in RegRequests, NEW c \in Codes,
           regReq[r].code = c, regReq[r].pc \in {"save", "create"},
           regReq'[r].code = c, regReq'[r].pc = "mark",
           \A s \in RegRequests \ {r} : regReq'[s] = regReq[s],
           registered'[c] = registered[c] + 1, UNCHANGED <<regCodes, codeCount, aborts>>
    PROVE  CodeBounds(c)'
<1>1. /\ registered[c] \in Nat /\ aborts \in Nat /\ codeCount \in Nat /\ c \in Nat
      /\ Cardinality(Marking(c)) \in Nat /\ Cardinality(Presenting(c)) \in Nat
      /\ Cardinality(RegRequests) \in Nat /\ c <= codeCount
  BY RegSizes, RegSubsets DEF RegTypeOK, Codes, RegCountsInv
<1>2. Presenting(c)' = Presenting(c) \ {r} /\ r \in Presenting(c)
  BY DEF Presenting
<1>3. Marking(c)' = Marking(c) \cup {r} /\ r \notin Marking(c)
  BY DEF Marking
<1>4. Cardinality(Presenting(c)') = Cardinality(Presenting(c)) - 1
  BY <1>2, RegSizes, RegSubsets, FS_RemoveElement
<1>5. Cardinality(Marking(c)') = Cardinality(Marking(c)) + 1
  BY <1>3, RegSizes, RegSubsets, FS_AddElement
<1>6. CodeBounds(c)
  BY DEF RegCountsInv
<1>7. regCodes'[c].active => registered'[c] <= aborts' + Cardinality(Marking(c)')
  BY <1>1, <1>5, <1>6 DEF CodeBounds
<1>8. registered'[c] + Cardinality(Presenting(c)') <= Cardinality(RegRequests) + aborts'
  BY <1>1, <1>4, <1>6 DEF CodeBounds
<1> QED
  BY <1>1, <1>7, <1>8 DEF CodeBounds

\* A step that changes no code, no registration and no abort, and after which whoever has a
\* code had it at the same point before, is about to mark it still or has given it up.
LEMMA CountsKept ==
    ASSUME RegTypeOK, RegTypeOK', RegCountsInv, UNCHANGED <<codeCount, registered, aborts>>,
           \A c \in Codes : regCodes'[c].active => regCodes[c].active,
           NEW r \in RegRequests, \A s \in RegRequests \ {r} : regReq'[s] = regReq[s],
           \/ regReq[r].pc # "mark"
           \/ \A c \in Codes : regReq[r].code = c => ~regCodes'[c].active,
           regReq'[r].code = 0 \/ regReq'[r].code = regReq[r].code,
           regReq'[r].code # 0 /\ regReq'[r].pc \in {"owner", "device", "save", "create"} =>
                regReq[r].pc \in {"owner", "device", "save", "create"}
    PROVE  RegCountsInv'
<1>1. codeCount \in Nat
  BY DEF RegTypeOK
<1>2. ASSUME NEW c \in Codes PROVE CodeBounds(c)'
  <2>1. c # 0
    BY DEF Codes
  <2>2. Presenting(c)' \subseteq Presenting(c)
    BY <2>1 DEF Presenting
  <2>3. regCodes'[c].active => Marking(c) \subseteq Marking(c)'
    BY DEF Marking
  <2>4. CodeBounds(c)
    BY DEF RegCountsInv
  <2> QED
    BY <1>1, <2>2, <2>3, <2>4, BoundsStay
<1>3. \A s \in RegRequests : regReq'[s].code <= codeCount'
  BY <1>1 DEF RegCountsInv
<1> QED
  BY <1>2, <1>3 DEF RegCountsInv

\* A request that registers with the code it has, or that has none, goes on to the mark.
LEMMA CountsRegister ==
    ASSUME RegTypeOK, RegTypeOK', RegCountsInv, UNCHANGED <<regCodes, codeCount, aborts>>,
           NEW r \in RegRequests, \A s \in RegRequests \ {r} : regReq'[s] = regReq[s],
           Registers(r), regReq[r].pc \in {"save", "create"}, regReq'[r].pc \in {"mark", "idle"},
           regReq'[r].pc = "mark" => regReq'[r].code = regReq[r].code,
           regReq'[r].pc = "idle" => regReq'[r].code = 0 /\ regReq[r].code = 0
    PROVE  RegCountsInv'
<1>1. codeCount \in Nat
  BY DEF RegTypeOK
<1>2. \A c \in Codes : registered'[c] = IF c = regReq[r].code THEN registered[c] + 1 ELSE registered[c]
  BY RegistersTypes
<1>3. ASSUME NEW c \in Codes PROVE CodeBounds(c)'
  <2>1. c # 0 /\ CodeBounds(c)
    BY DEF Codes, RegCountsInv
  <2>2. CASE c = regReq[r].code
    BY <1>2, <2>1, <2>2, BoundsOfRegistered
  <2>3. CASE c # regReq[r].code
    <3>1. Presenting(c)' \subseteq Presenting(c) /\ Marking(c) \subseteq Marking(c)'
      BY <2>1, <2>3 DEF Presenting, Marking
    <3> QED
      BY <1>1, <1>2, <2>1, <2>3, <3>1, BoundsStay
  <2> QED
    BY <2>2, <2>3
<1>4. \A s \in RegRequests : regReq'[s].code <= codeCount'
  BY <1>1 DEF RegCountsInv
<1> QED
  BY <1>3, <1>4 DEF RegCountsInv

LEMMA RegCountsNext == RegTypeOK /\ RegCountsInv /\ [RegNext]_regVars => RegCountsInv'
<1> SUFFICES ASSUME RegTypeOK, RegCountsInv, [RegNext]_regVars PROVE RegCountsInv'
  OBVIOUS
<1>0. RegTypeOK' /\ codeCount \in Nat
  BY RegTypeNext DEF RegTypeOK
<1>1. CASE UNCHANGED regVars
  BY <1>1 DEF regVars, RegCountsInv, CodeBounds, Presenting, Marking
<1>2. ASSUME NEW r \in RegRequests, NEW o \in Owners, ConsumeEarlierCodes(r, o) PROVE RegCountsInv'
  <2>1. \A c \in Codes : regCodes'[c].active => regCodes[c].active
    BY <1>2, RegDocuments DEF ConsumeEarlierCodes, RegTypeOK
  <2>2. /\ regReq[r].pc = "idle" /\ regReq'[r].code = 0
        /\ \A s \in RegRequests \ {r} : regReq'[s] = regReq[s]
    BY <1>2, RegOthers DEF ConsumeEarlierCodes
  <2> QED
    BY <1>0, <1>2, <2>1, <2>2, CountsKept DEF ConsumeEarlierCodes
<1>3. ASSUME NEW r \in RegRequests, CreateCode(r) PROVE RegCountsInv'
  <2>0. PICK n \in Nat : n = codeCount + 1
    BY <1>0
  <2>1. /\ regReq[r].pc = "issue" /\ codeCount' = n /\ UNCHANGED <<aborts, registered>>
        /\ \A c \in Codes \ {n} : regCodes'[c] = regCodes[c]
    BY <1>3, <2>0 DEF CreateCode, RegTypeOK
  <2>2. /\ regReq'[r].pc = "idle" /\ regReq'[r].code = 0
        /\ \A s \in RegRequests \ {r} : regReq'[s] = regReq[s]
    BY <1>3, RegOthers DEF CreateCode
  <2>3. ASSUME NEW c \in Codes, c # n PROVE CodeBounds(c)'
    <3>1. c # 0 /\ CodeBounds(c) /\ codeCount' \in Nat /\ codeCount' >= codeCount
      BY <1>0, <2>0, <2>1 DEF Codes, RegCountsInv
    <3>2. Presenting(c)' \subseteq Presenting(c) /\ Marking(c) \subseteq Marking(c)'
      BY <2>1, <2>2, <3>1 DEF Presenting, Marking
    <3> QED
      BY <2>1, <2>3, <3>1, <3>2, BoundsStay
  <2>4. ASSUME n \in Codes PROVE CodeBounds(n)'
    <3>1. registered'[n] = 0
      BY <1>0, <2>0, <2>1, <2>4 DEF RegCountsInv, CodeBounds
    <3>2. aborts' \in Nat /\ Cardinality(Marking(n)') \in Nat
      BY <1>0, RegSizes, RegSubsets DEF RegTypeOK
    <3>3. registered'[n] <= aborts' + Cardinality(Marking(n)') /\ n <= codeCount'
      BY <1>0, <2>1, <3>1, <3>2
    <3> QED
      BY <1>0, <2>4, <3>3, BoundsOfActive
  <2>5. \A s \in RegRequests : regReq'[s].code <= codeCount'
    BY <1>0, <2>0, <2>1, <2>2 DEF RegCountsInv, RegTypeOK, RegRequest
  <2> QED
    BY <2>3, <2>4, <2>5 DEF RegCountsInv
<1>4. ASSUME NEW r \in RegRequests, NEW c \in Codes, NEW m \in Macs, FindCode(r, c, m)
      PROVE  RegCountsInv'
  <2>1. /\ regReq[r].pc = "idle" /\ regReq'[r].code = c /\ regReq'[r].pc = "owner"
        /\ \A s \in RegRequests \ {r} : regReq'[s] = regReq[s]
        /\ regCodes[c].active /\ c <= codeCount
        /\ UNCHANGED <<regCodes, codeCount, aborts, registered>>
    BY <1>0, <1>4, RegOthers DEF FindCode, ActiveCodes
  <2>2. \A d \in Codes : Marking(d)' = Marking(d)
    BY <2>1 DEF Marking
  <2>3. CodeBounds(c)'
    <3>1. registered'[c] <= aborts' + Cardinality(Marking(c)')
      BY <2>1, <2>2 DEF RegCountsInv, CodeBounds
    <3> QED
      BY <1>0, <2>1, <3>1, BoundsOfActive
  <2>4. ASSUME NEW d \in Codes, d # c PROVE CodeBounds(d)'
    <3>1. Presenting(d)' \subseteq Presenting(d) /\ CodeBounds(d)
      BY <2>1, <2>4 DEF Presenting, RegCountsInv
    <3> QED
      BY <1>0, <2>1, <2>2, <3>1, BoundsStay
  <2>5. \A s \in RegRequests : regReq'[s].code <= codeCount'
    BY <2>1 DEF RegCountsInv
  <2> QED
    BY <2>3, <2>4, <2>5 DEF RegCountsInv
<1>5. ASSUME NEW r \in RegRequests, NEW o \in Owners, NEW m \in Macs, RegisterDevice(r, o, m)
      PROVE  RegCountsInv'
  <2>1. /\ regReq[r].pc = "idle" /\ regReq'[r].code = 0
        /\ \A s \in RegRequests \ {r} : regReq'[s] = regReq[s]
    BY <1>5, RegOthers DEF RegisterDevice
  <2> QED
    BY <1>0, <1>5, <2>1, CountsKept DEF RegisterDevice
<1>6. ASSUME NEW r \in RegRequests, NEW d \in Devices, DeleteTokens(r, d) PROVE RegCountsInv'
  <2>1. /\ regReq[r].pc = "idle" /\ regReq'[r].code = 0
        /\ \A s \in RegRequests \ {r} : regReq'[s] = regReq[s]
    BY <1>6, RegOthers DEF DeleteTokens
  <2> QED
    BY <1>0, <1>6, <2>1, CountsKept DEF DeleteTokens
<1>7. ASSUME NEW r \in RegRequests, UNCHANGED <<regCodes, codeCount, registered, aborts>>,
             regReq[r].pc \in {"owner", "device", "save", "create", "token", "store", "delete"},
             \/ RegDone(r)
             \/ /\ regReq[r].pc \in {"owner", "device", "save", "create"}
                /\ \E pc, d : RegGoto(r, pc, d)
             \/ \E pc \in {"token", "store"} : \E d : RegGoto(r, pc, d)
      PROVE  RegCountsInv'
  <2>1. /\ \A s \in RegRequests \ {r} : regReq'[s] = regReq[s]
        /\ regReq'[r].code = 0 \/ regReq'[r].code = regReq[r].code
    BY <1>7, RegOthers
  <2>2. regReq'[r].code # 0 /\ regReq'[r].pc \in {"owner", "device", "save", "create"} =>
             regReq[r].pc \in {"owner", "device", "save", "create"}
    BY <1>7, RegOthers
  <2> QED
    BY <1>0, <1>7, <2>1, <2>2, CountsKept
<1>8. ASSUME NEW r \in RegRequests,
             CheckOwner(r) \/ FindDevice(r) \/ ReadForToken(r) \/ StoreToken(r) \/ DeleteDocument(r)
      PROVE  RegCountsInv'
  <2>1. /\ UNCHANGED <<regCodes, codeCount, registered, aborts>>
        /\ regReq[r].pc \in {"owner", "device", "save", "create", "token", "store", "delete"}
    BY <1>8 DEF CheckOwner, FindDevice, ReadForToken, StoreToken, DeleteDocument
  <2>2. \/ RegDone(r)
        \/ /\ regReq[r].pc \in {"owner", "device", "save", "create"}
           /\ \E pc, d : RegGoto(r, pc, d)
        \/ \E pc \in {"token", "store"} : \E d : RegGoto(r, pc, d)
    BY <1>8 DEF CheckOwner, FindDevice, ReadForToken, StoreToken, DeleteDocument
  <2> QED
    BY <1>7, <2>1, <2>2
<1>9. ASSUME NEW r \in RegRequests, SaveDevice(r) PROVE RegCountsInv'
  <2>1. UNCHANGED <<regCodes, codeCount, aborts>> /\ regReq[r].pc = "save"
    BY <1>9 DEF SaveDevice
  <2>2. CASE RegDone(r) /\ UNCHANGED registered
    BY <1>7, <2>1, <2>2
  <2>3. CASE RegGoto(r, "mark", regReq[r].device) /\ Registers(r)
    <3>1. /\ regReq'[r].pc = "mark" /\ regReq'[r].code = regReq[r].code
          /\ \A s \in RegRequests \ {r} : regReq'[s] = regReq[s]
      BY <2>3, RegOthers
    <3> QED
      BY <1>0, <2>1, <2>3, <3>1, CountsRegister
  <2> QED
    BY <1>9, <2>2, <2>3, Zenon DEF SaveDevice
<1>10. ASSUME NEW r \in RegRequests, CreateDevice(r) PROVE RegCountsInv'
  <2>1. UNCHANGED <<regCodes, codeCount, aborts>> /\ regReq[r].pc = "create"
    BY <1>10 DEF CreateDevice
  <2>2. CASE RegDone(r) /\ UNCHANGED registered
    BY <1>7, <2>1, <2>2
  <2>3. ASSUME Registers(r), NEW d,
               IF regReq[r].code = 0 THEN RegDone(r) ELSE RegGoto(r, "mark", d)
        PROVE  RegCountsInv'
    <3>1. /\ \A s \in RegRequests \ {r} : regReq'[s] = regReq[s]
          /\ \/ regReq'[r].pc = "mark" /\ regReq'[r].code = regReq[r].code
             \/ regReq'[r].pc = "idle" /\ regReq'[r].code = 0 /\ regReq[r].code = 0
      BY <2>3, RegOthers
    <3> QED
      BY <1>0, <2>1, <2>3, <3>1, CountsRegister
  <2> QED
    BY <1>10, <2>2, <2>3, Zenon DEF CreateDevice
<1>11. ASSUME NEW r \in RegRequests, ConsumeCode(r) PROVE RegCountsInv'
  <2>1. \A c \in Codes : /\ regCodes'[c].active => regCodes[c].active
                         /\ regReq[r].code = c => ~regCodes'[c].active
    BY <1>11, RegDocuments DEF ConsumeCode, RegTypeOK
  <2>2. /\ regReq'[r].pc = "token" /\ regReq'[r].code = regReq[r].code
        /\ \A s \in RegRequests \ {r} : regReq'[s] = regReq[s]
    BY <1>11, RegOthers DEF ConsumeCode
  <2> QED
    BY <1>0, <1>11, <2>1, <2>2, CountsKept DEF ConsumeCode
<1>12. ASSUME NEW r \in RegRequests, AbortRegistration(r) PROVE RegCountsInv'
  <2>1. /\ regReq'[r].pc = "idle" /\ regReq'[r].code = 0 /\ aborts' = aborts + 1
        /\ \A s \in RegRequests \ {r} : regReq'[s] = regReq[s]
        /\ UNCHANGED <<regCodes, codeCount, registered>> /\ aborts \in Nat
    BY <1>12, RegOthers DEF AbortRegistration, RegTypeOK
  <2>2. ASSUME NEW c \in Codes PROVE CodeBounds(c)'
    <3>1. Presenting(c)' \subseteq Presenting(c) /\ Marking(c) \ {r} \subseteq Marking(c)'
      BY <2>1 DEF Presenting, Marking, Codes
    <3>2. /\ registered[c] \in Nat /\ c \in Nat /\ CodeBounds(c)
          /\ Cardinality(Marking(c)) \in Nat /\ Cardinality(Marking(c)') \in Nat
          /\ Cardinality(Presenting(c)) \in Nat /\ Cardinality(Presenting(c)') \in Nat
          /\ Cardinality(RegRequests) \in Nat
      BY RegSizes, RegSubsets DEF RegTypeOK, Codes, RegCountsInv
    <3>3. Cardinality(Marking(c)) <= Cardinality(Marking(c)') + 1
      <4>1. Cardinality(Marking(c) \ {r}) \in {Cardinality(Marking(c)), Cardinality(Marking(c)) - 1}
        BY RegSizes, RegSubsets, FS_RemoveElement
      <4>2. Cardinality(Marking(c) \ {r}) <= Cardinality(Marking(c)')
        BY <3>1, RegSizes, RegSubsets
      <4> QED
        BY <3>2, <4>1, <4>2
    <3>4. Cardinality(Presenting(c)') <= Cardinality(Presenting(c))
      BY <3>1, RegSizes, RegSubsets
    <3>5. regCodes'[c].active => registered'[c] <= aborts' + Cardinality(Marking(c)')
      BY <2>1, <3>2, <3>3 DEF CodeBounds
    <3>6. registered'[c] + Cardinality(Presenting(c)') <= Cardinality(RegRequests) + aborts'
      BY <2>1, <3>2, <3>4 DEF CodeBounds
    <3>7. codeCount' < c => registered'[c] = 0 /\ ~regCodes'[c].active
      BY <2>1, <3>2 DEF CodeBounds
    <3> QED
      BY <3>5, <3>6, <3>7 DEF CodeBounds
  <2>3. \A s \in RegRequests : regReq'[s].code <= codeCount'
    BY <1>0, <2>1 DEF RegCountsInv
  <2> QED
    BY <2>2, <2>3 DEF RegCountsInv
<1>13. ASSUME NEW t \in deviceTokens, RevokeToken(t) PROVE RegCountsInv'
  BY <1>13 DEF RevokeToken, RegCountsInv, CodeBounds, Presenting, Marking
<1>14. ASSUME NEW e \in Codes, ExpireCode(e) PROVE RegCountsInv'
  <2>1. /\ \A c \in Codes : regCodes'[c].active => regCodes[c].active
        /\ UNCHANGED <<codeCount, registered, aborts, regReq>>
    BY <1>14, RegDocuments DEF ExpireCode, RegTypeOK
  <2>2. ASSUME NEW c \in Codes PROVE CodeBounds(c)'
    <3>1. Presenting(c)' = Presenting(c) /\ Marking(c)' = Marking(c) /\ CodeBounds(c)
      BY <2>1 DEF Presenting, Marking, RegCountsInv
    <3> QED
      BY <1>0, <2>1, <3>1, BoundsStay
  <2> QED
    BY <2>1, <2>2 DEF RegCountsInv
<1> QED
  BY <1>1, <1>2, <1>3, <1>4, <1>5, <1>6, <1>8, <1>9, <1>10, <1>11, <1>12, <1>13, <1>14
     DEF RegNext

LEMMA RegCountsInit == RegInit => RegCountsInv
<1> SUFFICES ASSUME RegInit PROVE RegCountsInv
  OBVIOUS
<1>1. \A r \in RegRequests : regReq[r].pc = "idle" /\ regReq[r].code = 0
  BY DEF RegInit, IdleReg
<1>2. \A c \in Codes : /\ Presenting(c) = {} /\ Marking(c) = {}
                       /\ registered[c] = 0 /\ ~regCodes[c].active
  BY <1>1 DEF Presenting, Marking, RegInit
<1>3. aborts = 0 /\ codeCount = 0
  BY DEF RegInit
<1> QED
  BY <1>1, <1>2, <1>3, RegSizes, FS_EmptySet DEF RegCountsInv, CodeBounds

\* A code is looked up in one await and marked in a later one: however the requests
\* interleave, it registers at most once for each request in flight and each that ended early.
THEOREM RegistrationsStayBounded == RegSpec => []RegistrationsBounded
<1>1. RegTypeOK /\ RegCountsInv => RegistrationsBounded
  <2> SUFFICES ASSUME RegTypeOK, RegCountsInv, NEW c \in Codes
               PROVE  registered[c] <= Cardinality(RegRequests) + aborts
    BY DEF RegistrationsBounded
  <2>1. /\ registered[c] \in Nat /\ aborts \in Nat /\ Cardinality(RegRequests) \in Nat
        /\ Cardinality(Presenting(c)) \in Nat
    BY RegSizes, RegSubsets DEF RegTypeOK
  <2> QED
    BY <2>1 DEF RegCountsInv, CodeBounds
<1> QED
  BY <1>1, RegCountsInit, RegCountsNext, RegTypeCorrect, PTL DEF RegSpec

-----------------------------------------------------------------------------
(* Google sign-in: what each request and each code may rely on             *)

\* A linked account is never linked to another Google user, so what a sign-in found, linked
\* or created holds for as long as its request, its code and the exchange last.
SignInInv ==
    /\ \A r \in GRequests :
        /\ gReq[r].pc \in SignInPcs => gReq[r].google # NoGoogle
        /\ gReq[r].pc \in {"callback", "authState", "login"} =>
             /\ gReq[r].google # NoGoogle
             /\ accounts[gReq[r].account].google = gReq[r].google
        /\ gReq[r].pc = "consume" => gReq[r].handoff \in 1..handoffCount
    /\ \A h \in 1..handoffCount :
        /\ handoffs[h].account \in Existing /\ handoffs[h].google # NoGoogle
        /\ accounts[handoffs[h].account].google = handoffs[h].google

\* A code that can still be consumed, or is not created yet, has not been.
HandoffInv ==
    \A h \in Handoffs : /\ exchanged[h] <= 1
                        /\ ValidHandoff(h) \/ handoffCount < h => exchanged[h] = 0

GoogleInv == GoogleTypeOK /\ SignInInv

LEMMA GoogleTypes ==
    ASSUME GoogleTypeOK
    PROVE  /\ accountCount \in Nat /\ handoffCount \in Nat /\ MaxAccounts \in Nat /\ MaxHandoffs \in Nat
           /\ Existing \subseteq Accounts /\ 1..handoffCount \subseteq Handoffs
           /\ IdleG \in GRequest /\ IdleG.pc = "idle" /\ IdleG.google = NoGoogle
           /\ IdleG.account = 0
<1>1. MaxAccounts \in Nat /\ MaxHandoffs \in Nat
  BY GoogleAssumption
<1>2. accountCount \in 0..MaxAccounts /\ handoffCount \in 0..MaxHandoffs
  BY DEF GoogleTypeOK
<1>3. IdleG \in GRequest /\ IdleG.pc = "idle" /\ IdleG.google = NoGoogle /\ IdleG.account = 0
  BY <1>1, GoogleAssumption DEF IdleG, GRequest
<1> QED
  BY <1>1, <1>2, <1>3 DEF Existing, Accounts, Handoffs

\* The one field of a document that an update changes.
LEMMA GoogleDocuments ==
    /\ \A x \in Account, g \in GoogleUsers \cup {NoGoogle} :
        /\ [x EXCEPT !.google = g] \in Account /\ [x EXCEPT !.google = g].google = g
    /\ \A x \in Account :
        /\ [x EXCEPT !.verified = TRUE] \in Account /\ [x EXCEPT !.verified = TRUE].google = x.google
        /\ [x EXCEPT !.active = ~x.active] \in Account
        /\ [x EXCEPT !.active = ~x.active].google = x.google
        /\ [x EXCEPT !.deleted = TRUE, !.active = FALSE] \in Account
        /\ [x EXCEPT !.deleted = TRUE, !.active = FALSE].google = x.google
    /\ \A x \in Account, e \in Emails :
        /\ [x EXCEPT !.email = e] \in Account /\ [x EXCEPT !.email = e].google = x.google
    /\ \A x \in Handoff :
        /\ [x EXCEPT !.valid = FALSE] \in Handoff /\ ~[x EXCEPT !.valid = FALSE].valid
        /\ [x EXCEPT !.valid = FALSE].account = x.account
        /\ [x EXCEPT !.valid = FALSE].google = x.google
    /\ \A e \in Emails, g \in GoogleUsers \cup {NoGoogle} :
        NewAccount(e, g) \in Account /\ NewAccount(e, g).google = g
<1>1. ASSUME NEW x \in Account, NEW g \in GoogleUsers \cup {NoGoogle}
      PROVE  /\ [x EXCEPT !.google = g] \in Account /\ [x EXCEPT !.google = g].google = g
  BY Zenon DEF Account
<1>2. ASSUME NEW x \in Account
      PROVE  /\ [x EXCEPT !.verified = TRUE] \in Account
             /\ [x EXCEPT !.verified = TRUE].google = x.google
  BY Zenon DEF Account
<1>3. ASSUME NEW x \in Account
      PROVE  /\ [x EXCEPT !.active = ~x.active] \in Account
             /\ [x EXCEPT !.active = ~x.active].google = x.google
  <2> DEFINE not == ~x.active
  <2>1. not \in BOOLEAN
    BY Zenon
  <2> HIDE DEF not
  <2>2. [x EXCEPT !.active = not] \in Account /\ [x EXCEPT !.active = not].google = x.google
    BY <2>1, Zenon DEF Account
  <2> QED
    BY <2>2 DEF not
<1>4. ASSUME NEW x \in Account
      PROVE  /\ [x EXCEPT !.deleted = TRUE, !.active = FALSE] \in Account
             /\ [x EXCEPT !.deleted = TRUE, !.active = FALSE].google = x.google
  <2> DEFINE y == [x EXCEPT !.deleted = TRUE]
  <2>1. y \in Account /\ y.google = x.google
    BY Zenon DEF Account
  <2> HIDE DEF y
  <2>2. [y EXCEPT !.active = FALSE] \in Account /\ [y EXCEPT !.active = FALSE].google = y.google
    BY <2>1, Zenon DEF Account
  <2>3. [x EXCEPT !.deleted = TRUE, !.active = FALSE] = [y EXCEPT !.active = FALSE]
    BY Zenon DEF y
  <2> QED
    BY <2>1, <2>2, <2>3, Zenon
<1>5. ASSUME NEW x \in Account, NEW e \in Emails
      PROVE  [x EXCEPT !.email = e] \in Account /\ [x EXCEPT !.email = e].google = x.google
  BY Zenon DEF Account
<1>6. ASSUME NEW x \in Handoff
      PROVE  /\ [x EXCEPT !.valid = FALSE] \in Handoff /\ ~[x EXCEPT !.valid = FALSE].valid
             /\ [x EXCEPT !.valid = FALSE].account = x.account
             /\ [x EXCEPT !.valid = FALSE].google = x.google
  BY Zenon DEF Handoff
<1>7. ASSUME NEW e \in Emails, NEW g \in GoogleUsers \cup {NoGoogle}
      PROVE  NewAccount(e, g) \in Account /\ NewAccount(e, g).google = g
  BY DEF NewAccount, Account
<1> QED
  BY <1>1, <1>2, <1>3, <1>4, <1>5, <1>6, <1>7, Zenon

LEMMA GoogleInitial == GoogleInit => GoogleInv /\ HandoffInv
<1> SUFFICES ASSUME GoogleInit PROVE GoogleInv /\ HandoffInv
  OBVIOUS
<1>1. /\ MaxAccounts \in Nat /\ MaxHandoffs \in Nat
      /\ IdleG \in GRequest /\ IdleG.pc = "idle" /\ IdleG.email \in Emails
  BY GoogleAssumption DEF IdleG, GRequest
<1>2. gReq \in [GRequests -> GRequest] /\ \A r \in GRequests : gReq[r].pc = "idle"
  BY <1>1 DEF GoogleInit
<1>3. accounts \in [Accounts -> Account]
  <2>1. NewAccount(IdleG.email, NoGoogle) \in Account
    BY <1>1, GoogleDocuments
  <2> QED
    BY <2>1 DEF GoogleInit
<1> DEFINE none == [account |-> 0, google |-> NoGoogle, valid |-> FALSE]
<1>4. none \in Handoff
  <2>1. 0 \in 0..MaxAccounts
    BY <1>1
  <2> QED
    BY <2>1, Zenon DEF Handoff
<1>5. handoffs = [h \in Handoffs |-> none] /\ accountCount = 0 /\ handoffCount = 0
  BY DEF GoogleInit
<1> HIDE DEF none
<1>6. handoffs \in [Handoffs -> Handoff]
  BY <1>4, <1>5
<1>7. exchanged \in [Handoffs -> Nat] /\ \A h \in Handoffs : exchanged[h] = 0
  BY DEF GoogleInit
<1>8. GoogleTypeOK
  BY <1>1, <1>2, <1>3, <1>5, <1>6, <1>7 DEF GoogleTypeOK
<1>9. SignInInv
  BY <1>2, <1>5 DEF SignInInv, SignInPcs
<1>10. HandoffInv
  BY <1>7 DEF HandoffInv
<1> QED
  BY <1>8, <1>9, <1>10 DEF GoogleInv

-----------------------------------------------------------------------------
(* Google sign-in: each step                                               *)

\* A step that moves at most one request, to where it must be, and leaves alone what the
\* others rely on: the Google user of a linked account, and whom a code is for.
LEMMA SignInStep ==
    ASSUME GoogleInv, gReq' \in [GRequests -> GRequest],
           \A r \in GRequests : gReq'[r] # gReq[r] =>
                /\ gReq'[r].pc \in {"link", "callback", "authState", "login"} =>
                     gReq'[r].account \in 1..accountCount'
                /\ gReq'[r].pc \in SignInPcs => gReq'[r].google # NoGoogle
                /\ gReq'[r].pc \in {"callback", "authState", "login"} =>
                     /\ gReq'[r].google # NoGoogle
                     /\ accounts'[gReq'[r].account].google = gReq'[r].google
                /\ gReq'[r].pc = "consume" => gReq'[r].handoff \in 1..handoffCount,
           accounts' \in [Accounts -> Account], accountCount' \in accountCount..MaxAccounts,
           \A a \in Existing : accounts[a].google # NoGoogle =>
                accounts'[a].google = accounts[a].google,
           handoffs' \in [Handoffs -> Handoff], handoffCount' \in handoffCount..MaxHandoffs,
           \A h \in 1..handoffCount : /\ handoffs'[h].account = handoffs[h].account
                                      /\ handoffs'[h].google = handoffs[h].google,
           \A h \in 1..handoffCount' : h > handoffCount =>
                /\ handoffs'[h].account \in Existing /\ handoffs'[h].google # NoGoogle
                /\ accounts'[handoffs'[h].account].google = handoffs'[h].google,
           exchanged' \in [Handoffs -> Nat]
    PROVE  GoogleInv'
<1>1. accountCount \in Nat /\ handoffCount \in Nat /\ MaxAccounts \in Nat /\ MaxHandoffs \in Nat
  BY GoogleTypes DEF GoogleInv
<1>3. /\ accountCount' \in 0..MaxAccounts /\ handoffCount' \in 0..MaxHandoffs
      /\ accountCount' \in Nat /\ handoffCount' \in Nat
      /\ Existing \subseteq Existing' /\ Existing' = 1..accountCount'
      /\ 1..handoffCount \subseteq 1..handoffCount'
  BY <1>1 DEF Existing
<1>4. ASSUME NEW r \in GRequests, gReq'[r].pc \in {"link", "callback", "authState", "login"}
      PROVE  gReq'[r].account \in Existing'
  BY <1>3, <1>4 DEF GoogleInv, GoogleTypeOK
<1>5. GoogleTypeOK'
  BY <1>3, <1>4 DEF GoogleTypeOK
<1>6. ASSUME NEW r \in GRequests
      PROVE  /\ gReq'[r].pc \in SignInPcs => gReq'[r].google # NoGoogle
             /\ gReq'[r].pc = "consume" => gReq'[r].handoff \in 1..handoffCount'
  BY <1>3 DEF GoogleInv, SignInInv
<1>7. ASSUME NEW r \in GRequests, gReq'[r].pc \in {"callback", "authState", "login"}
      PROVE  /\ gReq'[r].google # NoGoogle
             /\ accounts'[gReq'[r].account].google = gReq'[r].google
  <2>1. CASE gReq'[r] # gReq[r]
    BY <1>7, <2>1
  <2>2. CASE gReq'[r] = gReq[r]
    <3>1. /\ gReq[r].account \in Existing /\ gReq[r].google # NoGoogle
          /\ accounts[gReq[r].account].google = gReq[r].google
      BY <1>7, <2>2 DEF GoogleInv, GoogleTypeOK, SignInInv
    <3> QED
      BY <2>2, <3>1
  <2> QED
    BY <2>1, <2>2
<1>8. ASSUME NEW h \in 1..handoffCount'
      PROVE  /\ handoffs'[h].account \in Existing' /\ handoffs'[h].google # NoGoogle
             /\ accounts'[handoffs'[h].account].google = handoffs'[h].google
  <2>1. CASE h > handoffCount
    <3>1. /\ handoffs'[h].account \in Existing /\ handoffs'[h].google # NoGoogle
          /\ accounts'[handoffs'[h].account].google = handoffs'[h].google
      BY <2>1
    <3> QED
      BY <1>3, <3>1
  <2>2. CASE h \in 1..handoffCount
    <3>1. /\ handoffs[h].account \in Existing /\ handoffs[h].google # NoGoogle
          /\ accounts[handoffs[h].account].google = handoffs[h].google
      BY <2>2 DEF GoogleInv, SignInInv
    <3>2. handoffs'[h].account = handoffs[h].account /\ handoffs'[h].google = handoffs[h].google
      BY <2>2
    <3>3. accounts'[handoffs[h].account].google = accounts[handoffs[h].account].google
      BY <3>1
    <3> QED
      BY <1>3, <3>1, <3>2, <3>3
  <2> QED
    BY <1>1, <1>3, <2>1, <2>2
<1>9. SignInInv'
  BY <1>6, <1>7, <1>8 DEF SignInInv
<1> QED
  BY <1>5, <1>9 DEF GoogleInv

\* The steps that change a request only.
LEMMA RequestStep ==
    ASSUME GoogleInv, NEW r \in GRequests, NEW q \in GRequest, gReq' = [gReq EXCEPT ![r] = q],
           UNCHANGED <<accounts, accountCount, handoffs, handoffCount, exchanged>>,
           q.pc \in {"link", "callback", "authState", "login"} => q.account \in Existing,
           q.pc \in SignInPcs => q.google # NoGoogle,
           q.pc \in {"callback", "authState", "login"} =>
                q.google # NoGoogle /\ accounts[q.account].google = q.google,
           q.pc = "consume" => q.handoff \in 1..handoffCount
    PROVE  GoogleInv'
<1>1. gReq' \in [GRequests -> GRequest] /\ \A s \in GRequests : gReq'[s] = IF s = r THEN q ELSE gReq[s]
  BY DEF GoogleInv, GoogleTypeOK
<1>2. /\ accounts' \in [Accounts -> Account] /\ accountCount' \in accountCount..MaxAccounts
      /\ handoffs' \in [Handoffs -> Handoff] /\ handoffCount' \in handoffCount..MaxHandoffs
      /\ exchanged' \in [Handoffs -> Nat]
      /\ \A h \in 1..handoffCount' : ~(h > handoffCount)
  BY GoogleTypes DEF GoogleInv, GoogleTypeOK
<1>3. 1..accountCount' = Existing
  BY DEF Existing
<1> QED
  BY <1>1, <1>2, <1>3, SignInStep

\* A request ends, or goes on with what it remembers and the account it now has.
LEMMA RequestEnds ==
    ASSUME GoogleInv, NEW r \in GRequests, GDone(r),
           UNCHANGED <<accounts, accountCount, handoffs, handoffCount, exchanged>>
    PROVE  GoogleInv'
<1>1. IdleG \in GRequest /\ IdleG.pc = "idle"
  BY GoogleTypes DEF GoogleInv
<1> QED
  BY <1>1, RequestStep DEF GDone, SignInPcs

LEMMA RequestGoes ==
    ASSUME GoogleTypeOK, NEW r \in GRequests, NEW a \in 0..MaxAccounts,
           NEW pc \in {"idle"} \cup SignInPcs \cup ExchangePcs, GGoto(r, pc, a)
    PROVE  \E q \in GRequest :
             /\ gReq' = [gReq EXCEPT ![r] = q]
             /\ q.pc = pc /\ q.account = a /\ q.google = gReq[r].google
<1> DEFINE q == [gReq[r] EXCEPT !.pc = pc, !.account = a]
<1>1. q \in GRequest /\ q.pc = pc /\ q.account = a /\ q.google = gReq[r].google
  BY DEF GoogleTypeOK, GRequest
<1>2. gReq' = [gReq EXCEPT ![r] = q]
  BY DEF GGoto
<1> HIDE DEF q
<1> QED
  BY <1>1, <1>2

LEMMA RequestMoves ==
    ASSUME GoogleInv, NEW r \in GRequests, NEW a \in 0..MaxAccounts,
           NEW pc \in {"byEmail", "link", "create", "callback", "login"}, GGoto(r, pc, a),
           UNCHANGED <<accounts, accountCount, handoffs, handoffCount, exchanged>>,
           gReq[r].google # NoGoogle, pc \in {"link", "callback", "login"} => a \in Existing,
           pc \in {"callback", "login"} => accounts[a].google = gReq[r].google
    PROVE  GoogleInv'
<1>1. GoogleTypeOK /\ pc \in {"idle"} \cup SignInPcs \cup ExchangePcs
  BY DEF GoogleInv, SignInPcs, ExchangePcs
<1>2. PICK q \in GRequest : /\ gReq' = [gReq EXCEPT ![r] = q]
                            /\ q.pc = pc /\ q.account = a /\ q.google = gReq[r].google
  BY <1>1, RequestGoes
<1> QED
  BY <1>2, RequestStep

LEMMA SignInNext == GoogleInv /\ [GoogleNext]_gVars => GoogleInv'
<1> SUFFICES ASSUME GoogleInv, [GoogleNext]_gVars PROVE GoogleInv'
  OBVIOUS
<1>0. /\ GoogleTypeOK /\ SignInInv
      /\ accountCount \in Nat /\ handoffCount \in Nat /\ MaxAccounts \in Nat /\ MaxHandoffs \in Nat
      /\ Existing \subseteq Accounts /\ Existing \subseteq 0..MaxAccounts /\ 0 \in 0..MaxAccounts
      /\ 1..handoffCount \subseteq Handoffs
      /\ accountCount \in 0..MaxAccounts /\ handoffCount \in 0..MaxHandoffs
      /\ IdleG \in GRequest /\ IdleG.pc = "idle"
  BY GoogleTypes DEF GoogleInv, GoogleTypeOK, Accounts
<1>1. CASE UNCHANGED gVars
  BY <1>1 DEF gVars, GoogleInv, GoogleTypeOK, SignInInv, Existing
<1>2. ASSUME NEW r \in GRequests, NEW g \in GoogleUsers, NEW e \in Emails, StartSignIn(r, g, e)
      PROVE  GoogleInv'
  <2> DEFINE q == [IdleG EXCEPT !.pc = "byGoogle", !.google = g, !.email = e]
  <2>1. q \in GRequest /\ q.pc = "byGoogle" /\ q.google = g /\ g # NoGoogle
    BY <1>0, GoogleAssumption DEF GRequest, SignInPcs
  <2>2. /\ gReq' = [gReq EXCEPT ![r] = q]
        /\ UNCHANGED <<accounts, accountCount, handoffs, handoffCount, exchanged>>
    BY <1>2 DEF StartSignIn
  <2> HIDE DEF q
  <2> QED
    BY <2>1, <2>2, RequestStep
<1>3. ASSUME NEW r \in GRequests, FindByGoogle(r) PROVE GoogleInv'
  <2>1. UNCHANGED <<accounts, accountCount, handoffs, handoffCount, exchanged>>
    BY <1>3 DEF FindByGoogle
  <2>2. gReq[r].google # NoGoogle
    BY <1>0, <1>3 DEF FindByGoogle, SignInInv, SignInPcs
  <2>3. ASSUME NEW a \in ByGoogle(gReq[r].google), GGoto(r, "callback", a) PROVE GoogleInv'
    <3>1. a \in Existing /\ accounts[a].google = gReq[r].google
      BY DEF ByGoogle, Present
    <3> QED
      BY <1>0, <2>1, <2>2, <2>3, <3>1, RequestMoves
  <2>4. ASSUME GGoto(r, "byEmail", 0) PROVE GoogleInv'
    BY <1>0, <2>1, <2>2, <2>4, RequestMoves
  <2> QED
    BY <1>3, <2>1, <2>3, <2>4, RequestEnds, Zenon DEF FindByGoogle
<1>4. ASSUME NEW r \in GRequests, FindByEmail(r) PROVE GoogleInv'
  <2>1. UNCHANGED <<accounts, accountCount, handoffs, handoffCount, exchanged>>
    BY <1>4 DEF FindByEmail
  <2>2. gReq[r].google # NoGoogle
    BY <1>0, <1>4 DEF FindByEmail, SignInInv, SignInPcs
  <2>3. ASSUME NEW a \in ByEmail(gReq[r].email), accounts[a].google = gReq[r].google,
               GGoto(r, "callback", a)
        PROVE  GoogleInv'
    <3>1. a \in Existing
      BY DEF ByEmail, Present
    <3> QED
      BY <1>0, <2>1, <2>2, <2>3, <3>1, RequestMoves
  <2>4. ASSUME NEW a \in ByEmail(gReq[r].email), GGoto(r, "link", a) PROVE GoogleInv'
    <3>1. a \in Existing
      BY DEF ByEmail, Present
    <3> QED
      BY <1>0, <2>1, <2>2, <2>4, <3>1, RequestMoves
  <2>5. ASSUME GGoto(r, "create", 0) PROVE GoogleInv'
    BY <1>0, <2>1, <2>2, <2>5, RequestMoves
  <2>6. \/ GDone(r) \/ GGoto(r, "create", 0)
        \/ \E a \in ByEmail(gReq[r].email) :
             \/ accounts[a].google = gReq[r].google /\ GGoto(r, "callback", a)
             \/ GGoto(r, "link", a)
    BY <1>4, Zenon DEF FindByEmail
  <2> QED
    BY <2>1, <2>3, <2>4, <2>5, <2>6, RequestEnds
<1>5. ASSUME NEW r \in GRequests, LinkGoogleAccount(r) PROVE GoogleInv'
  <2>1. UNCHANGED <<accountCount, handoffs, handoffCount, exchanged>> /\ gReq[r].pc = "link"
    BY <1>5 DEF LinkGoogleAccount
  <2>2. gReq[r].account \in Existing /\ gReq[r].google # NoGoogle
    BY <1>0, <2>1 DEF GoogleTypeOK, SignInInv, SignInPcs
  <2>3. CASE GDone(r) /\ UNCHANGED accounts
    BY <2>1, <2>3, RequestEnds
  <2>4. CASE accounts[gReq[r].account].google \in {NoGoogle, gReq[r].google} /\ Links(r)
    <3>0. PICK a \in Existing : a = gReq[r].account
      BY <2>2
    <3> DEFINE x == [accounts[a] EXCEPT !.google = gReq[r].google]
    <3>7. "callback" \in {"idle"} \cup SignInPcs \cup ExchangePcs /\ GGoto(r, "callback", a)
      BY <2>4, <3>0 DEF SignInPcs, Links
    <3>1. PICK q \in GRequest : /\ gReq' = [gReq EXCEPT ![r] = q]
                                /\ q.pc = "callback" /\ q.account = a /\ q.google = gReq[r].google
      BY <1>0, <3>7, RequestGoes
    <3>2. accounts' = [accounts EXCEPT ![a] = x]
      BY <2>4, <3>0 DEF Links
    <3>3. x \in Account /\ x.google = gReq[r].google
      <4>1. accounts[a] \in Account /\ gReq[r].google \in GoogleUsers \cup {NoGoogle}
        BY <1>0 DEF GoogleTypeOK, GRequest
      <4>2. /\ [accounts[a] EXCEPT !.google = gReq[r].google] \in Account
            /\ [accounts[a] EXCEPT !.google = gReq[r].google].google = gReq[r].google
        BY <4>1, GoogleDocuments
      <4> QED
        BY <4>2
    <3> HIDE DEF x
    <3>4. /\ accounts' \in [Accounts -> Account] /\ accounts'[a] = x
          /\ \A b \in Existing : accounts[b].google # NoGoogle =>
               accounts'[b].google = accounts[b].google
      BY <1>0, <2>4, <3>0, <3>2, <3>3 DEF GoogleTypeOK
    <3>5. gReq' \in [GRequests -> GRequest] /\ \A s \in GRequests : gReq'[s] = IF s = r THEN q ELSE gReq[s]
      BY <1>0, <3>1 DEF GoogleTypeOK
    <3>6. /\ accountCount' \in accountCount..MaxAccounts /\ handoffCount' \in handoffCount..MaxHandoffs
          /\ handoffs' \in [Handoffs -> Handoff] /\ exchanged' \in [Handoffs -> Nat]
          /\ \A h \in 1..handoffCount' : ~(h > handoffCount)
          /\ 1..accountCount' = Existing
      BY <1>0, <2>1 DEF GoogleTypeOK, Existing
    <3> QED
      BY <2>1, <2>2, <3>1, <3>3, <3>4, <3>5, <3>6, SignInStep DEF SignInPcs
  <2> QED
    BY <1>5, <2>3, <2>4 DEF LinkGoogleAccount
<1>6. ASSUME NEW b \in Accounts, b = accountCount + 1, NEW x \in Account,
             accounts' = [accounts EXCEPT ![b] = x], accountCount' = b,
             UNCHANGED <<handoffs, handoffCount, exchanged>>,
             \/ UNCHANGED gReq
             \/ \E r \in GRequests : /\ GGoto(r, "callback", b) /\ x.google = gReq[r].google
                                     /\ gReq[r].google # NoGoogle
      PROVE  GoogleInv'
  <2>1. /\ accounts' \in [Accounts -> Account] /\ accounts'[b] = x
        /\ \A c \in Existing : accounts'[c] = accounts[c]
    BY <1>0, <1>6 DEF GoogleTypeOK, Existing
  <2>2. /\ accountCount' \in accountCount..MaxAccounts /\ handoffCount' \in handoffCount..MaxHandoffs
        /\ handoffs' \in [Handoffs -> Handoff] /\ exchanged' \in [Handoffs -> Nat]
        /\ \A h \in 1..handoffCount' : ~(h > handoffCount)
        /\ b \in 1..accountCount' /\ b \in 0..MaxAccounts
    BY <1>0, <1>6 DEF GoogleTypeOK, Accounts
  <2>3. /\ gReq' \in [GRequests -> GRequest]
        /\ \A r \in GRequests : gReq'[r] # gReq[r] =>
             /\ gReq'[r].pc = "callback" /\ gReq'[r].account = b
             /\ gReq'[r].google = x.google /\ x.google # NoGoogle
    <3>1. CASE UNCHANGED gReq
      BY <1>0, <3>1 DEF GoogleTypeOK
    <3>2. ASSUME NEW r \in GRequests, GGoto(r, "callback", b), x.google = gReq[r].google,
                 gReq[r].google # NoGoogle
          PROVE  /\ gReq' \in [GRequests -> GRequest]
                 /\ \A s \in GRequests : gReq'[s] # gReq[s] =>
                      /\ gReq'[s].pc = "callback" /\ gReq'[s].account = b
                      /\ gReq'[s].google = x.google /\ x.google # NoGoogle
      <4>2. "callback" \in {"idle"} \cup SignInPcs \cup ExchangePcs
        BY DEF SignInPcs
      <4>1. PICK q \in GRequest : /\ gReq' = [gReq EXCEPT ![r] = q]
                                  /\ q.pc = "callback" /\ q.account = b /\ q.google = gReq[r].google
        BY <1>0, <2>2, <3>2, <4>2, RequestGoes
      <4>3. \A s \in GRequests : gReq'[s] = IF s = r THEN q ELSE gReq[s]
        BY <1>0, <4>1 DEF GoogleTypeOK
      <4>4. gReq' \in [GRequests -> GRequest]
        BY <1>0, <4>1 DEF GoogleTypeOK
      <4> QED
        BY <3>2, <4>1, <4>3, <4>4
    <3> QED
      BY <1>6, <3>1, <3>2
  <2> QED
    BY <1>6, <2>1, <2>2, <2>3, SignInStep
<1>7. ASSUME NEW r \in GRequests, CreateGoogleUser(r) PROVE GoogleInv'
  <2>1. UNCHANGED <<handoffs, handoffCount, exchanged>> /\ gReq[r].pc = "create"
    BY <1>7 DEF CreateGoogleUser
  <2>2. gReq[r].google # NoGoogle
    BY <1>0, <2>1 DEF SignInInv, SignInPcs
  <2>3. CASE GDone(r) /\ UNCHANGED <<accounts, accountCount>>
    BY <2>1, <2>3, RequestEnds
  <2>4. CASE /\ accountCount + 1 \in Accounts
             /\ accounts' = [accounts EXCEPT ![accountCount + 1] =
                               NewAccount(gReq[r].email, gReq[r].google)]
             /\ accountCount' = accountCount + 1
             /\ GGoto(r, "callback", accountCount + 1)
    <3>1. PICK b \in Accounts : b = accountCount + 1
      BY <2>4
    <3>2. /\ NewAccount(gReq[r].email, gReq[r].google) \in Account
          /\ NewAccount(gReq[r].email, gReq[r].google).google = gReq[r].google
      <4>1. gReq[r].email \in Emails /\ gReq[r].google \in GoogleUsers \cup {NoGoogle}
        BY <1>0 DEF GoogleTypeOK, GRequest
      <4> QED
        BY <4>1, GoogleDocuments
    <3> QED
      BY <1>6, <2>1, <2>2, <2>4, <3>1, <3>2
  <2> QED
    BY <1>7, <2>3, <2>4, Zenon DEF CreateGoogleUser
<1>8. ASSUME NEW r \in GRequests,
             LoginFromCallback(r) \/ LoginFromExchange(r) \/ AbortSignIn(r)
      PROVE  GoogleInv'
  BY <1>8, RequestEnds DEF LoginFromCallback, LoginFromExchange, AbortSignIn
<1>9. ASSUME NEW r \in GRequests, CreateHandoff(r) PROVE GoogleInv'
  <2>0. PICK h \in Handoffs : h = handoffCount + 1
    BY <1>9 DEF CreateHandoff
  <2> DEFINE x == [account |-> gReq[r].account, google |-> gReq[r].google, valid |-> TRUE]
  <2>1. /\ UNCHANGED <<accounts, accountCount, exchanged>> /\ gReq[r].pc = "callback"
        /\ handoffs' = [handoffs EXCEPT ![h] = x] /\ handoffCount' = h /\ GDone(r)
    BY <1>9, <2>0 DEF CreateHandoff
  <2>2. /\ gReq[r].account \in Existing /\ gReq[r].google # NoGoogle
        /\ accounts[gReq[r].account].google = gReq[r].google
    BY <1>0, <2>1 DEF GoogleTypeOK, SignInInv
  <2>3. x \in Handoff /\ x.account = gReq[r].account /\ x.google = gReq[r].google
    BY <1>0, <2>2 DEF Handoff, GoogleTypeOK, GRequest
  <2> HIDE DEF x
  <2>4. /\ handoffs' \in [Handoffs -> Handoff] /\ handoffs'[h] = x
        /\ \A g \in 1..handoffCount : handoffs'[g] = handoffs[g]
    BY <1>0, <2>0, <2>1, <2>3 DEF GoogleTypeOK
  <2>5. /\ gReq' \in [GRequests -> GRequest]
        /\ \A s \in GRequests : gReq'[s] # gReq[s] => gReq'[s].pc = "idle"
    BY <1>0, <2>1 DEF GDone, GoogleTypeOK
  <2>6. /\ accountCount' \in accountCount..MaxAccounts /\ handoffCount' \in handoffCount..MaxHandoffs
        /\ accounts' \in [Accounts -> Account] /\ exchanged' \in [Handoffs -> Nat]
        /\ \A g \in 1..handoffCount' : g > handoffCount => g = h
    BY <1>0, <2>0, <2>1 DEF GoogleTypeOK, Handoffs
  <2> QED
    BY <2>1, <2>2, <2>3, <2>4, <2>5, <2>6, SignInStep DEF SignInPcs
<1>10. ASSUME NEW r \in GRequests, NEW h \in Handoffs, FindHandoff(r, h) PROVE GoogleInv'
  <2> DEFINE q == [IdleG EXCEPT !.pc = "consume", !.handoff = h]
  <2>1. h \in 1..handoffCount /\ h \in 0..MaxHandoffs
    BY <1>0, <1>10 DEF FindHandoff, ValidHandoff, Handoffs
  <2>2. q \in GRequest /\ q.pc = "consume" /\ q.handoff = h
    BY <1>0, <2>1 DEF GRequest, ExchangePcs
  <2>3. /\ gReq' = [gReq EXCEPT ![r] = q]
        /\ UNCHANGED <<accounts, accountCount, handoffs, handoffCount, exchanged>>
    BY <1>10 DEF FindHandoff
  <2> HIDE DEF q
  <2> QED
    BY <2>1, <2>2, <2>3, RequestStep DEF SignInPcs
<1>11. ASSUME NEW g \in Handoffs, UNCHANGED <<accounts, accountCount, handoffCount>>,
              handoffs' = [handoffs EXCEPT ![g] = [handoffs[g] EXCEPT !.valid = FALSE]],
              exchanged' \in [Handoffs -> Nat], gReq' \in [GRequests -> GRequest],
              \A r \in GRequests : gReq'[r] # gReq[r] =>
                /\ gReq'[r].pc = "authState" /\ gReq'[r].account \in Existing
                /\ gReq'[r].google # NoGoogle
                /\ accounts[gReq'[r].account].google = gReq'[r].google
       PROVE  GoogleInv'
  <2>1. handoffs \in [Handoffs -> Handoff]
    BY <1>0 DEF GoogleTypeOK
  <2>2. /\ handoffs' \in [Handoffs -> Handoff]
        /\ \A h \in Handoffs : /\ handoffs'[h].account = handoffs[h].account
                               /\ handoffs'[h].google = handoffs[h].google
    BY <1>11, <2>1, GoogleDocuments
  <2>3. /\ accountCount' \in accountCount..MaxAccounts /\ handoffCount' \in handoffCount..MaxHandoffs
        /\ accounts' \in [Accounts -> Account] /\ 1..accountCount' = Existing
        /\ \A h \in 1..handoffCount' : ~(h > handoffCount)
    BY <1>0, <1>11 DEF GoogleTypeOK, Existing
  <2> QED
    BY <1>0, <1>11, <2>2, <2>3, SignInStep DEF SignInPcs
<1>12. ASSUME NEW r \in GRequests, ConsumeHandoff(r) PROVE GoogleInv'
  <2>1. UNCHANGED <<accounts, accountCount, handoffCount>> /\ gReq[r].pc = "consume"
    BY <1>12 DEF ConsumeHandoff
  <2>2. CASE GDone(r) /\ UNCHANGED <<handoffs, exchanged>>
    BY <2>1, <2>2, RequestEnds
  <2>3. CASE ExchangeOf(r)
    <3>1. PICK h \in 1..handoffCount : h = gReq[r].handoff
      BY <1>0, <2>1 DEF SignInInv
    <3>2. /\ h \in Handoffs /\ handoffs[h].account \in Existing /\ handoffs[h].google # NoGoogle
          /\ accounts[handoffs[h].account].google = handoffs[h].google
          /\ handoffs[h].google \in GoogleUsers \cup {NoGoogle}
      BY <1>0 DEF SignInInv, GoogleTypeOK, Handoff
    <3> DEFINE q == [gReq[r] EXCEPT !.pc = "authState",
                       !.account = handoffs[h].account, !.google = handoffs[h].google]
    <3>3. /\ q \in GRequest /\ q.pc = "authState" /\ q.account = handoffs[h].account
          /\ q.google = handoffs[h].google
      BY <1>0, <3>2 DEF GoogleTypeOK, GRequest, ExchangePcs
    <3>4. /\ gReq' = [gReq EXCEPT ![r] = q]
          /\ handoffs' = [handoffs EXCEPT ![h] = [handoffs[h] EXCEPT !.valid = FALSE]]
          /\ exchanged' = [exchanged EXCEPT ![h] = exchanged[h] + 1]
      BY <2>3, <3>1 DEF ExchangeOf
    <3> HIDE DEF q
    <3>5. /\ gReq' \in [GRequests -> GRequest]
          /\ \A s \in GRequests : gReq'[s] # gReq[s] => gReq'[s] = q
      BY <1>0, <3>3, <3>4 DEF GoogleTypeOK
    <3>6. exchanged' \in [Handoffs -> Nat]
      BY <1>0, <3>4 DEF GoogleTypeOK
    <3> QED
      BY <1>11, <2>1, <3>2, <3>3, <3>4, <3>5, <3>6
  <2> QED
    BY <1>12, <2>2, <2>3, Zenon DEF ConsumeHandoff
<1>13. ASSUME NEW r \in GRequests, ReadAuthState(r) PROVE GoogleInv'
  <2>1. /\ UNCHANGED <<accounts, accountCount, handoffs, handoffCount, exchanged>>
        /\ gReq[r].pc = "authState"
    BY <1>13 DEF ReadAuthState
  <2>2. /\ gReq[r].account \in Existing /\ gReq[r].google # NoGoogle
        /\ accounts[gReq[r].account].google = gReq[r].google
    BY <1>0, <2>1 DEF GoogleTypeOK, SignInInv
  <2>3. CASE GGoto(r, "login", gReq[r].account)
    BY <1>0, <2>1, <2>2, <2>3, RequestMoves
  <2> QED
    BY <1>13, <2>1, <2>3, RequestEnds, Zenon DEF ReadAuthState
<1>14. ASSUME NEW e \in Emails, Register(e) PROVE GoogleInv'
  <2>1. PICK b \in Accounts : b = accountCount + 1
    BY <1>14 DEF Register
  <2>2. NewAccount(e, NoGoogle) \in Account
    BY GoogleDocuments
  <2> QED
    BY <1>6, <1>14, <2>1, <2>2 DEF Register
<1>15. ASSUME NEW b \in Accounts, ChangeAccount(b) PROVE GoogleInv'
  <2>0. UNCHANGED <<accountCount, handoffs, handoffCount, gReq, exchanged>>
    BY <1>15 DEF ChangeAccount
  <2>1. PICK x : accounts' = [accounts EXCEPT ![b] = x] /\ x \in Account /\ x.google = accounts[b].google
    <3>1. accounts[b] \in Account
      BY <1>0 DEF GoogleTypeOK
    <3>2. \/ accounts' = [accounts EXCEPT ![b] = [accounts[b] EXCEPT !.verified = TRUE]]
          \/ accounts' = [accounts EXCEPT ![b] = [accounts[b] EXCEPT !.active = ~accounts[b].active]]
          \/ accounts' = [accounts EXCEPT ![b] =
                            [accounts[b] EXCEPT !.deleted = TRUE, !.active = FALSE]]
          \/ \E e \in Emails : accounts' = [accounts EXCEPT ![b] = [accounts[b] EXCEPT !.email = e]]
      BY <1>15, Zenon DEF ChangeAccount
    <3>3. CASE \E e \in Emails : accounts' = [accounts EXCEPT ![b] = [accounts[b] EXCEPT !.email = e]]
      <4>1. PICK e \in Emails : accounts' = [accounts EXCEPT ![b] = [accounts[b] EXCEPT !.email = e]]
        BY <3>3
      <4>2. /\ [accounts[b] EXCEPT !.email = e] \in Account
            /\ [accounts[b] EXCEPT !.email = e].google = accounts[b].google
        BY <3>1, GoogleDocuments
      <4> QED
        BY <4>1, <4>2
    <3>4. /\ [accounts[b] EXCEPT !.verified = TRUE] \in Account
          /\ [accounts[b] EXCEPT !.verified = TRUE].google = accounts[b].google
          /\ [accounts[b] EXCEPT !.active = ~accounts[b].active] \in Account
          /\ [accounts[b] EXCEPT !.active = ~accounts[b].active].google = accounts[b].google
          /\ [accounts[b] EXCEPT !.deleted = TRUE, !.active = FALSE] \in Account
          /\ [accounts[b] EXCEPT !.deleted = TRUE, !.active = FALSE].google = accounts[b].google
      BY <3>1, GoogleDocuments
    <3> QED
      BY <3>2, <3>3, <3>4, Zenon
  <2>2. /\ accounts' \in [Accounts -> Account]
        /\ \A a \in Existing : accounts'[a].google = accounts[a].google
    BY <1>0, <2>1 DEF GoogleTypeOK
  <2>3. /\ accountCount' \in accountCount..MaxAccounts /\ handoffCount' \in handoffCount..MaxHandoffs
        /\ handoffs' \in [Handoffs -> Handoff] /\ exchanged' \in [Handoffs -> Nat]
        /\ gReq' \in [GRequests -> GRequest]
        /\ \A h \in 1..handoffCount' : ~(h > handoffCount)
    BY <1>0, <2>0 DEF GoogleTypeOK
  <2> QED
    BY <2>0, <2>2, <2>3, SignInStep
<1>16. ASSUME NEW h \in Handoffs, ExpireHandoff(h) PROVE GoogleInv'
  <2>1. /\ UNCHANGED <<accounts, accountCount, handoffCount, gReq, exchanged>>
        /\ handoffs' = [handoffs EXCEPT ![h] = [handoffs[h] EXCEPT !.valid = FALSE]]
    BY <1>16 DEF ExpireHandoff
  <2> QED
    BY <1>0, <1>11, <2>1 DEF GoogleTypeOK
<1> QED
  BY <1>1, <1>2, <1>3, <1>4, <1>5, <1>7, <1>8, <1>9, <1>10, <1>12, <1>13, <1>14, <1>15, <1>16
     DEF GoogleNext

LEMMA SignInCorrect == GoogleSpec => []GoogleInv
BY GoogleInitial, SignInNext, PTL DEF GoogleSpec

\* Accounts, codes and requests are always well formed, and a request that goes on with an
\* account has one that was created.
THEOREM GoogleTypeCorrect == GoogleSpec => []GoogleTypeOK
<1>1. GoogleInv => GoogleTypeOK
  BY DEF GoogleInv
<1> QED
  BY <1>1, SignInCorrect, PTL

\* Whatever was linked, created, changed or deleted between the awaits of the sign-ins and
\* exchanges in flight: a session is given for the account of the Google user who signed in.
THEOREM SessionsOfGoogleUser == GoogleSpec => []SessionOfGoogleUser
<1>1. GoogleInv => SessionOfGoogleUser
  BY DEF GoogleInv, SignInInv, SessionOfGoogleUser
<1> QED
  BY <1>1, SignInCorrect, PTL

-----------------------------------------------------------------------------
(* Google sign-in: a code is exchanged once                                *)

LEMMA HandoffNext == GoogleInv /\ HandoffInv /\ [GoogleNext]_gVars => HandoffInv'
<1> SUFFICES ASSUME GoogleInv, HandoffInv, [GoogleNext]_gVars PROVE HandoffInv'
  OBVIOUS
<1>0. /\ GoogleTypeOK /\ handoffCount \in Nat /\ handoffs \in [Handoffs -> Handoff]
      /\ exchanged \in [Handoffs -> Nat] /\ Handoffs \subseteq Nat
  BY GoogleTypes DEF GoogleInv, GoogleTypeOK, Handoffs
<1>1. CASE UNCHANGED <<handoffs, handoffCount, exchanged>>
  BY <1>1 DEF HandoffInv, ValidHandoff
<1>2. ASSUME NEW r \in GRequests, CreateHandoff(r) PROVE HandoffInv'
  <2>1. /\ handoffCount' = handoffCount + 1 /\ exchanged' = exchanged
        /\ \A h \in Handoffs : h # handoffCount + 1 => handoffs'[h] = handoffs[h]
    BY <1>0, <1>2 DEF CreateHandoff
  <2>2. ASSUME NEW h \in Handoffs
        PROVE  /\ exchanged'[h] <= 1
               /\ ValidHandoff(h)' \/ handoffCount' < h => exchanged'[h] = 0
    <3>1. CASE h <= handoffCount
      BY <1>0, <2>1, <3>1 DEF HandoffInv, ValidHandoff
    <3>2. CASE handoffCount < h
      BY <1>0, <2>1, <3>2 DEF HandoffInv
    <3> QED
      BY <1>0, <3>1, <3>2
  <2> QED
    BY <2>2 DEF HandoffInv
<1>3. ASSUME NEW r \in GRequests, ConsumeHandoff(r) PROVE HandoffInv'
  <2>1. CASE UNCHANGED <<handoffs, exchanged>>
    BY <1>1, <1>3, <2>1 DEF ConsumeHandoff
  <2>2. CASE ValidHandoff(gReq[r].handoff) /\ ExchangeOf(r)
    <3>1. PICK g \in Handoffs : g = gReq[r].handoff
      <4>1. gReq[r].handoff \in 1..handoffCount
        BY <1>3 DEF ConsumeHandoff, GoogleInv, SignInInv
      <4> QED
        BY <4>1, GoogleTypes DEF GoogleInv
    <3>2. exchanged[g] = 0 /\ handoffCount' = handoffCount
      BY <1>3, <2>2, <3>1 DEF HandoffInv, ConsumeHandoff
    <3>3. /\ exchanged' = [exchanged EXCEPT ![g] = exchanged[g] + 1]
          /\ ~handoffs'[g].valid /\ \A h \in Handoffs \ {g} : handoffs'[h] = handoffs[h]
      BY <1>0, <2>2, <3>1, GoogleDocuments DEF ExchangeOf
    <3>4. g <= handoffCount
      BY <2>2, <3>1 DEF ValidHandoff
    <3> QED
      BY <1>0, <3>2, <3>3, <3>4 DEF HandoffInv, ValidHandoff
  <2> QED
    BY <1>3, <2>1, <2>2 DEF ConsumeHandoff
<1>4. ASSUME NEW g \in Handoffs, ExpireHandoff(g) PROVE HandoffInv'
  <2>1. /\ UNCHANGED <<exchanged, handoffCount>> /\ ~handoffs'[g].valid
        /\ \A h \in Handoffs \ {g} : handoffs'[h] = handoffs[h]
    BY <1>0, <1>4, GoogleDocuments DEF ExpireHandoff
  <2>2. g <= handoffCount
    BY <1>4 DEF ExpireHandoff, ValidHandoff
  <2> QED
    BY <1>0, <2>1, <2>2 DEF HandoffInv, ValidHandoff
<1> QED
  BY <1>1, <1>2, <1>3, <1>4 DEF GoogleNext, gVars, StartSignIn, FindHandoff, FindByGoogle,
     FindByEmail, LinkGoogleAccount, CreateGoogleUser, LoginFromCallback, ReadAuthState,
     LoginFromExchange, AbortSignIn, Register, ChangeAccount

\* The update that consumes a code repeats the checks of the look-up before it: however many
\* exchanges of a code are under way, one gets a session with it.
THEOREM HandoffsExchangedOnce == GoogleSpec => []HandoffOnce
<1>1. HandoffInv => HandoffOnce
  BY DEF HandoffInv, HandoffOnce
<1> QED
  BY <1>1, GoogleInitial, HandoffNext, SignInCorrect, PTL DEF GoogleSpec

-----------------------------------------------------------------------------
(* The three together                                                      *)

\* Each of the three goes on, or stands still while another does.
LEMMA PartsBehave == CodesSpec => OtpSpec /\ RegSpec /\ GoogleSpec
<1>1. CodesInit => OtpInit /\ RegInit /\ GoogleInit
  BY DEF CodesInit
<1>2. [CodesNext]_allVars => [OtpNext]_otpVars /\ [RegNext]_regVars /\ [GoogleNext]_gVars
  BY DEF CodesNext, allVars, otpVars, regVars, gVars
<1> QED
  BY <1>1, <1>2, PTL DEF CodesSpec, OtpSpec, RegSpec, GoogleSpec

\* In the specification the runs check, the documents and requests of all three are well
\* formed, and refer to documents that exist or existed.
THEOREM CodesTypeCorrect == CodesSpec => []CodesTypeOK
<1>1. OtpTypeOK /\ RegTypeOK /\ GoogleTypeOK => CodesTypeOK
  BY DEF CodesTypeOK
<1> QED
  BY <1>1, PartsBehave, OtpTypeCorrect, RegTypeCorrect, GoogleTypeCorrect, PTL

================================================================================
