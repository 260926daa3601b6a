-------------------------------- MODULE OtpCodes --------------------------------
(***************************************************************************)
(* The one-time passwords VerificationService mails to one address: issued *)
(* and used up in several awaits each, to verify the address or to reset   *)
(* the password. Addresses share no code. Requests interleave at awaits.   *)
(***************************************************************************)
EXTENDS Naturals, FiniteSets

CONSTANTS
    OtpRequests,        \* requests in flight
    MaxFailedAttempts,
    MaxOtps             \* bound: codes issued

ASSUME OtpAssumption ==
    /\ IsFiniteSet(OtpRequests)
    /\ MaxFailedAttempts \in Nat \ {0}
    /\ MaxOtps \in Nat

VARIABLES
    otps,      \* the documents, in the order of createdAt
    otpCount,  \* documents 1..otpCount exist
    verified,  \* email_verified of the account
    otpReq,    \* each request: where it is and what it remembers
    uses       \* history: for each code, the requests it served

otpVars == <<otps, otpCount, verified, otpReq, uses>>

Purposes == {"EmailVerification", "PasswordReset"}
Otps == 1..MaxOtps
NoOtp == 0

\* valid: neither consumed nor expired.
Otp == [purpose : Purposes, failed : Nat, valid : BOOLEAN]
NewOtp(p) == [purpose |-> p, failed |-> 0, valid |-> TRUE]

\* otp: the code the request found or made; right: whether it was sent that one, from the
\* mail or by chance.
OtpRequest == [pc : {"idle", "invalidate", "create", "mail", "compare", "apply"},
               purpose : Purposes, otp : Otps \cup {NoOtp}, right : BOOLEAN]
IdleOtp == [pc |-> "idle", purpose |-> "PasswordReset", otp |-> NoOtp, right |-> FALSE]

OtpInit ==
    /\ otps = [c \in Otps |-> [purpose |-> "PasswordReset", failed |-> 0, valid |-> FALSE]]
    /\ otpCount = 0
    /\ verified = FALSE
    /\ otpReq = [r \in OtpRequests |-> IdleOtp]
    /\ uses = [c \in Otps |-> 0]

\* The filter of updateMany and findOne.
Usable(p) == {c \in 1..otpCount : otps[c].purpose = p /\ otps[c].valid}

OtpGoto(r, pc) == otpReq' = [otpReq EXCEPT ![r] = [otpReq[r] EXCEPT !.pc = pc]]
OtpDone(r) == otpReq' = [otpReq EXCEPT ![r] = IdleOtp]

-----------------------------------------------------------------------------
(* Issuing                                                                 *)

\* A verified address gets no verification code.
RequestOtp(r, p) ==
    /\ otpReq[r].pc = "idle"
    /\ p = "EmailVerification" => ~verified
    /\ otpReq' = [otpReq EXCEPT ![r] = [IdleOtp EXCEPT !.pc = "invalidate", !.purpose = p]]
    /\ UNCHANGED <<otps, otpCount, verified, uses>>

\* MUTANT: the earlier codes stay.
KeepOtps(r) ==
    /\ otpReq[r].pc = "invalidate"
    /\ OtpGoto(r, "create")
    /\ UNCHANGED <<otps, otpCount, verified, uses>>

\* issueOtp: the codes of this purpose that could still be used are marked consumed.
InvalidateOtps(r) ==
    /\ otpReq[r].pc = "invalidate"
    /\ otps' = [c \in Otps |-> IF c \in Usable(otpReq[r].purpose)
                               THEN [otps[c] EXCEPT !.valid = FALSE] ELSE otps[c]]
    /\ OtpGoto(r, "create")
    /\ UNCHANGED <<otpCount, verified, uses>>

\* issueOtp: and the new one is stored, once its hash is computed.
CreateOtp(r) ==
    /\ otpReq[r].pc = "create"
    /\ otpCount < MaxOtps
    /\ otpCount' = otpCount + 1
    /\ otps' = [otps EXCEPT ![otpCount + 1] = NewOtp(otpReq[r].purpose)]
    /\ otpReq' = [otpReq EXCEPT ![r] = [otpReq[r] EXCEPT !.pc = "mail", !.otp = otpCount + 1]]
    /\ UNCHANGED <<verified, uses>>

SendOtp(r) ==
    /\ otpReq[r].pc = "mail"
    /\ OtpDone(r)
    /\ UNCHANGED <<otps, otpCount, verified, uses>>

-----------------------------------------------------------------------------
(* Using a code                                                            *)

\* MUTANT: wrong attempts are counted, and nothing more.
FindAnyOtp(r, p, right) ==
    \E c \in Usable(p) :
        /\ otpReq[r].pc = "idle"
        /\ \A d \in Usable(p) : d <= c
        /\ otpReq' = [otpReq EXCEPT ![r] = [pc |-> "compare", purpose |-> p, otp |-> c, right |-> right]]
        /\ UNCHANGED <<otps, otpCount, verified, uses>>

\* consumeOtp: the newest usable code, unless it has had its wrong attempts.
FindOtp(r, p, right) ==
    \E c \in Usable(p) :
        /\ otpReq[r].pc = "idle"
        /\ \A d \in Usable(p) : d <= c
        /\ otps[c].failed < MaxFailedAttempts
        /\ otpReq' = [otpReq EXCEPT ![r] = [pc |-> "compare", purpose |-> p, otp |-> c, right |-> right]]
        /\ UNCHANGED <<otps, otpCount, verified, uses>>

\* consumeOtp: the hash does not match.
FailAttempt(r) ==
    LET c == otpReq[r].otp IN
    /\ otpReq[r].pc = "compare" /\ ~otpReq[r].right
    /\ otps' = [otps EXCEPT ![c] = [otps[c] EXCEPT !.failed = otps[c].failed + 1]]
    /\ OtpDone(r)
    /\ UNCHANGED <<otpCount, verified, uses>>

\* MUTANT: a code that was used is not marked.
ConsumeWithoutMark(r) ==
    LET c == otpReq[r].otp IN
    /\ otpReq[r].pc = "compare" /\ otpReq[r].right
    /\ uses' = [uses EXCEPT ![c] = uses[c] + 1]
    /\ OtpGoto(r, "apply")
    /\ UNCHANGED <<otps, otpCount, verified>>

\* consumeOtp: it matches, and the code is marked whatever happened to it meanwhile.
ConsumeOtp(r) ==
    LET c == otpReq[r].otp IN
    /\ otpReq[r].pc = "compare" /\ otpReq[r].right
    /\ otps' = [otps EXCEPT ![c] = [otps[c] EXCEPT !.valid = FALSE]]
    /\ uses' = [uses EXCEPT ![c] = uses[c] + 1]
    /\ OtpGoto(r, "apply")
    /\ UNCHANGED <<otpCount, verified>>

\* verifyOtp or resetPassword goes on with what the code is for.
ApplyOtp(r) ==
    /\ otpReq[r].pc = "apply"
    /\ verified' = (verified \/ otpReq[r].purpose = "EmailVerification")
    /\ OtpDone(r)
    /\ UNCHANGED <<otps, otpCount, uses>>

-----------------------------------------------------------------------------

\* A service throws or the process stops.
AbortOtp(r) ==
    /\ otpReq[r].pc # "idle"
    /\ OtpDone(r)
    /\ UNCHANGED <<otps, otpCount, verified, uses>>

\* expires_at of a code is over, and so is that of the earlier ones: all live equally long.
ExpireOtps(c) ==
    /\ c <= otpCount /\ otps[c].valid
    /\ otps' = [d \in Otps |-> IF d <= c THEN [otps[d] EXCEPT !.valid = FALSE] ELSE otps[d]]
    /\ UNCHANGED <<otpCount, verified, otpReq, uses>>

OtpNext ==
    \/ \E r \in OtpRequests :
        \/ \E p \in Purposes : \/ RequestOtp(r, p)
                               \/ \E right \in BOOLEAN : FindOtp(r, p, right)
        \/ InvalidateOtps(r) \/ CreateOtp(r) \/ SendOtp(r)
        \/ FailAttempt(r) \/ ConsumeOtp(r) \/ ApplyOtp(r) \/ AbortOtp(r)
    \/ \E c \in Otps : ExpireOtps(c)

OtpSpec == OtpInit /\ [][OtpNext]_otpVars

-----------------------------------------------------------------------------

OtpTypeOK ==
    /\ otps \in [Otps -> Otp]
    /\ otpCount \in 0..MaxOtps
    /\ verified \in BOOLEAN
    /\ otpReq \in [OtpRequests -> OtpRequest]
    /\ uses \in [Otps -> Nat]
    /\ \A r \in OtpRequests : otpReq[r].pc \in {"mail", "compare", "apply"} =>
            otpReq[r].otp \in 1..otpCount

Comparing(c) == {r \in OtpRequests : otpReq[r].pc = "compare" /\ otpReq[r].otp = c}
Creating(p) == {r \in OtpRequests : otpReq[r].pc = "create" /\ otpReq[r].purpose = p}

\* The limit of wrong attempts is read before the comparison and counted after it:
\* requests in flight together get past it, each by one attempt, and nothing more does.
GuessesBounded ==
    \A c \in Otps : otps[c].failed <= MaxFailedAttempts - 1 + Cardinality(OtpRequests)

\* A code is looked up and marked in two awaits. It serves more than one request only
\* if they were in flight together: one if requests come one after the other.
UsesBounded == \A c \in Otps : uses[c] <= Cardinality(OtpRequests)

\* Issuing marks the earlier codes and stores the new one in two awaits: more than one
\* code of a purpose is usable only if requests for one were in flight together.
UsableBounded == \A p \in Purposes : Cardinality(Usable(p)) <= Cardinality(OtpRequests)

=============================================================================
