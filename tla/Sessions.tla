------------------------------- MODULE Sessions -------------------------------
(***************************************************************************)
(* The SEP-10 sessions of one user, who is signed in on several devices:   *)
(* Sep10Service issues challenges, exchanges them for a pair of an access  *)
(* token and a refresh token and rotates the refresh token; JwtGuard       *)
(* admits requests with the access token; two daily jobs purge expired     *)
(* rows.  The devices are external: one that is refused refreshes, and one *)
(* that cannot refresh signs in again.                                     *)
(*                                                                         *)
(* A device awaits one request.  It may give up on it and send it again    *)
(* while the server still works on the first, so requests of different     *)
(* devices, and two of one device with the same token, interleave between  *)
(* their database calls.                                                   *)
(***************************************************************************)
EXTENDS Naturals, Sequences

CONSTANTS Clients,        \* devices of the user
          Flaky,          \* those among them that repeat a request or meet a failed insert
          ChallengeTTL,   \* CHALLENGE_TIMEOUT_SECONDS
          AccessTTL,      \* ACCESS_TOKEN_TTL
          RefreshTTL,     \* REFRESH_TOKEN_TTL
          Grace,          \* GRACE_PERIOD_MS of the refresh-token cleanup
          MaxTime,        \* bound: the clock
          MaxFaults       \* bound: failed inserts and repeated requests

VARIABLES now,
          nonces,         \* the latest Nonce row of each device
          tokens,         \* RefreshToken rows, in the order of their creation
          client,         \* per device its awaited and its abandoned request
          faults          \* failed inserts and repeated requests so far

sessionVars == <<now, nonces, tokens, client, faults>>

Slots   == {"awaited", "abandoned"}
NoToken == 0

\* Rows that were deleted, or never there.
NoNonce     == [exp |-> 0, used |-> FALSE, gone |-> TRUE]
PurgedToken == [parent |-> 0, exp |-> 0, revoked |-> FALSE, gone |-> TRUE]

\* A request and the tokens it carries; those of the awaited one are the
\* device's own.
Request(pc) == [pc |-> pc, token |-> NoToken, access |-> 0, since |-> 0]

SessionInit ==
    /\ now = 0
    /\ nonces = [c \in Clients |-> NoNonce]
    /\ tokens = << >>
    /\ client = [c \in Clients |-> [awaited   |-> Request("served"),
                                    abandoned |-> Request("over")]]
    /\ faults = 0

At(c, s, pc)   == client[c][s].pc = pc
Goto(c, s, pc) == client' = [client EXCEPT ![c][s].pc = pc]
TokenOf(c, s)  == client[c][s].token
Expired(exp)   == now > exp

(* The request is answered with an error: a device that awaits the answer  *)
(* forgets its tokens and signs in.                                        *)
Refuse(c, s) ==
    client' = [client EXCEPT ![c][s] =
                   Request(IF s = "awaited" THEN "challenge" ELSE "over")]
-----------------------------------------------------------------------------
Call(c) ==
    /\ At(c, "awaited", "served")
    /\ Goto(c, "awaited", "call")
    /\ UNCHANGED <<now, nonces, tokens, faults>>

(* JwtGuard.canActivate: a signed token whose exp is in the future.        *)
CanActivate(c) ==
    /\ At(c, "awaited", "call")
    /\ IF client[c].awaited.access > now THEN Goto(c, "awaited", "served")
       ELSE IF TokenOf(c, "awaited") = NoToken THEN Refuse(c, "awaited")
       ELSE client' = [client EXCEPT ![c].awaited.pc = "refresh", ![c].awaited.access = 0]
    /\ UNCHANGED <<now, nonces, tokens, faults>>

\* Mutant: the timeout is never added.
BuildExpiredChallenge(c) ==
    /\ At(c, "awaited", "challenge")
    /\ nonces' = [nonces EXCEPT ![c] = [exp |-> 0, used |-> FALSE, gone |-> FALSE]]
    /\ Goto(c, "awaited", "sign")
    /\ UNCHANGED <<now, tokens, faults>>

BuildChallenge(c) ==
    /\ At(c, "awaited", "challenge")
    /\ nonces' = [nonces EXCEPT ![c] = [exp |-> now + ChallengeTTL, used |-> FALSE, gone |-> FALSE]]
    /\ Goto(c, "awaited", "sign")
    /\ UNCHANGED <<now, tokens, faults>>

(* verifyAndIssueToken, up to its update of the nonce.                     *)
VerifyChallenge(c) ==
    /\ At(c, "awaited", "sign")
    /\ LET n == nonces[c] IN
       IF n.gone \/ n.used \/ Expired(n.exp) THEN Refuse(c, "awaited")
       ELSE Goto(c, "awaited", "use nonce")
    /\ UNCHANGED <<now, nonces, tokens, faults>>

(* The update fails when the row has been purged since it was read.        *)
UseNonce(c) ==
    /\ At(c, "awaited", "use nonce")
    /\ IF nonces[c].gone
       THEN Refuse(c, "awaited") /\ UNCHANGED nonces
       ELSE /\ nonces' = [nonces EXCEPT ![c].used = TRUE]
            /\ Goto(c, "awaited", "issue")
    /\ UNCHANGED <<now, tokens, faults>>
-----------------------------------------------------------------------------
(* rotateRefreshToken, up to its first write.                              *)
RotateRefreshToken(c) ==
    /\ At(c, "awaited", "refresh")
    /\ LET t == tokens[TokenOf(c, "awaited")] IN
       IF t.gone THEN Refuse(c, "awaited")
       ELSE IF t.revoked THEN Goto(c, "awaited", "revoke family")
       ELSE IF Expired(t.exp) THEN Refuse(c, "awaited")
       ELSE client' = [client EXCEPT ![c].awaited.pc = "revoke", ![c].awaited.since = now]
    /\ UNCHANGED <<now, nonces, tokens, faults>>

(* revokeTokenFamily: every token of the user.                             *)
RevokeTokenFamily(c) ==
    /\ At(c, "awaited", "revoke family")
    /\ tokens' = IF tokens[TokenOf(c, "awaited")].gone THEN tokens
                 ELSE [i \in 1..Len(tokens) |-> [tokens[i] EXCEPT !.revoked = TRUE]]
    /\ Refuse(c, "awaited")
    /\ UNCHANGED <<now, nonces, faults>>

\* Mutant: a rotation ends the other sessions too.
RevokeEverySession(c, s) ==
    /\ At(c, s, "revoke")
    /\ tokens' = [i \in 1..Len(tokens) |-> [tokens[i] EXCEPT !.revoked = TRUE]]
    /\ Goto(c, s, "issue")
    /\ UNCHANGED <<now, nonces, faults>>

(* The old token is revoked before its successor is made.  The update does *)
(* not ask whether another request has revoked it since it was read.       *)
RevokeOldToken(c, s) ==
    /\ At(c, s, "revoke")
    /\ IF tokens[TokenOf(c, s)].gone
       THEN Refuse(c, s) /\ UNCHANGED tokens
       ELSE /\ tokens' = [tokens EXCEPT ![TokenOf(c, s)].revoked = TRUE]
            /\ client' = [client EXCEPT ![c][s].pc = "issue", ![c][s].since = 0]
    /\ UNCHANGED <<now, nonces, faults>>

(* generateAuthTokens: the pair is signed, the refresh token stored.  An   *)
(* answer nobody awaits is lost.                                           *)
GenerateAuthTokens(c, s) ==
    /\ At(c, s, "issue")
    /\ tokens' = Append(tokens, [parent |-> TokenOf(c, s), exp |-> now + RefreshTTL,
                                 revoked |-> FALSE, gone |-> FALSE])
    /\ client' = [client EXCEPT ![c][s] =
                      IF s = "awaited"
                      THEN [pc |-> "call", token |-> Len(tokens'),
                            access |-> now + AccessTTL, since |-> 0]
                      ELSE Request("over")]
    /\ UNCHANGED <<now, nonces, faults>>

(* The insert fails after the old token was revoked.                       *)
FailToStore(c, s) ==
    /\ c \in Flaky /\ At(c, s, "issue") /\ faults < MaxFaults
    /\ faults' = faults + 1
    /\ Refuse(c, s)
    /\ UNCHANGED <<now, nonces, tokens>>

(* The device gives up waiting, or the answer is going to be lost: it      *)
(* presents its old token, or its signed challenge, again.                 *)
SendAgain(c) ==
    /\ c \in Flaky
    /\ At(c, "awaited", "revoke") \/ At(c, "awaited", "issue")
    /\ At(c, "abandoned", "over")
    /\ faults < MaxFaults
    /\ faults' = faults + 1
    /\ client' = [client EXCEPT
                      ![c].abandoned = client[c].awaited,
                      ![c].awaited.pc = IF TokenOf(c, "awaited") # NoToken THEN "refresh" ELSE "sign",
                      ![c].awaited.since = 0]
    /\ UNCHANGED <<now, nonces, tokens>>
-----------------------------------------------------------------------------
(* Expired rows are deleted at once, used or not.                          *)
CleanupExpiredNonces ==
    /\ \E c \in Clients : ~nonces[c].gone /\ nonces[c].exp < now
    /\ nonces' = [c \in Clients |-> IF nonces[c].exp < now THEN NoNonce ELSE nonces[c]]
    /\ UNCHANGED <<now, tokens, client, faults>>

Purge(cutoff) ==
    /\ \E i \in 1..Len(tokens) : ~tokens[i].gone /\ cutoff > tokens[i].exp
    /\ tokens' = [i \in 1..Len(tokens) |-> IF cutoff > tokens[i].exp THEN PurgedToken ELSE tokens[i]]
    /\ UNCHANGED <<now, nonces, client, faults>>

\* Mutant: no grace period.
CleanupWithoutGrace == Purge(now)

(* Rows whose expiry is older than the grace period are deleted.           *)
CleanupExpiredRefreshTokens == now >= Grace /\ Purge(now - Grace)

(* Time passes; a rotation does not take as long as the grace period, 30   *)
(* days.                                                                   *)
Tick ==
    /\ now < MaxTime
    /\ \A c \in Clients, s \in Slots :
           At(c, s, "revoke") => now < client[c][s].since + Grace
    /\ now' = now + 1
    /\ UNCHANGED <<nonces, tokens, client, faults>>

Handle(c, s) == RevokeOldToken(c, s) \/ GenerateAuthTokens(c, s)

SessionStep(c) ==
    \/ CanActivate(c) \/ BuildChallenge(c) \/ VerifyChallenge(c) \/ UseNonce(c)
    \/ RotateRefreshToken(c) \/ RevokeTokenFamily(c)
    \/ Handle(c, "awaited")

SessionNext ==
    \/ \E c \in Clients :
           \/ SessionStep(c) \/ Handle(c, "abandoned") \/ Call(c) \/ SendAgain(c)
           \/ \E s \in Slots : FailToStore(c, s)
    \/ CleanupExpiredNonces \/ CleanupExpiredRefreshTokens \/ Tick

(* The server works on while the devices wait; the jobs, the clock and new *)
(* calls owe nothing, nor does a request nobody awaits.                    *)
SessionSpec ==
    /\ SessionInit /\ [][SessionNext]_sessionVars
    /\ \A c \in Clients : WF_sessionVars(SessionStep(c))
-----------------------------------------------------------------------------
(* A device is signed out by nothing but expiry: as long as no request is  *)
(* repeated and no insert fails, a revoked token has its successor, or the *)
(* request that makes it is under way, whatever the other devices do.      *)
(* ("Not safe to retry with the same oldToken", says rotateRefreshToken of *)
(* the rest.)                                                              *)
SessionsKept ==
    faults = 0 =>
        \A i \in 1..Len(tokens) : tokens[i].revoked =>
            \/ \E j \in 1..Len(tokens) : tokens[j].parent = i
            \/ \E c \in Clients : At(c, "awaited", "issue") /\ TokenOf(c, "awaited") = i

(* The cleanup "only removes rows that can no longer be redeemed": a       *)
(* rotation, awaited or abandoned, that read its token before the cleanup  *)
(* ran, and writes it after, still finds the row.  (The cleanup of nonces  *)
(* has no grace period, and UseNonce may miss its row.)                    *)
CleanupUnnoticed ==
    \A c \in Clients, s \in Slots :
        At(c, s, "revoke") => ~tokens[TokenOf(c, s)].gone

(* A device that calls is served in the end, through expired tokens,       *)
(* overlapping refreshes of one token, reuse detection and purged rows,    *)
(* wherever the clock stands when it stops.                                *)
Served == \A c \in Clients : At(c, "awaited", "call") ~> At(c, "awaited", "served")
=============================================================================
