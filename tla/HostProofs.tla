----------------------------- MODULE HostProofs -----------------------------
(***************************************************************************)
(* Proofs about what runs or lies beside the request handlers, for any     *)
(* values of the constants: the adapter of ProviderCalls and the store of  *)
(* SessionStall, which all requests share, the cache of CompletionCache,   *)
(* the feed of RegistryFeed and the command line of Setup.  Each component *)
(* is on its own; MCHost runs them, and what is made of an answer for the  *)
(* client, side by side, and the last section shows that it keeps what     *)
(* each of them promises.                                                  *)
(***************************************************************************)
EXTENDS MCHost, MessagesProofs, ResponsesStreamProofs

-----------------------------------------------------------------------------
(***************************************************************************)
(* ProviderCalls.  The adapter only ever goes from a token to a newer one, *)
(* so a call that finds another token in the file than the adapter's finds *)
(* a newer one than any that was rejected: the invariant orders the tokens *)
(* of the call, the adapter, the file and the issuer.  For the failures it *)
(* keeps what is known of a call at each point of its way.                 *)
(***************************************************************************)

TokensOrdered ==
    /\ token = clientToken
    /\ token <= authFile /\ authFile <= issued

\* What a call holds of the tokens it used, where it stands.
CallTokens(c) ==
    /\ call[c].used <= token /\ call[c].rejected <= token
    /\ call[c].at = "resend" => call[c].rejected < token
    /\ call[c].at = "awaitAgain" => call[c].rejected < call[c].used

\* What is known of a call's attempts, stream and result, where it stands.
CallProgress(c) ==
    /\ call[c].at \in {"new", "send"} => call[c].attempt < MaxAttempts
    /\ call[c].at # "done" => call[c].result = "none"
    /\ call[c].opened => call[c].at \in {"streaming", "done"}
    /\ call[c].at = "streaming" => call[c].opened

CallsIInv ==
    /\ CallsTypeOK
    /\ TokensOrdered
    /\ \A c \in Calls : CallTokens(c) /\ CallProgress(c)
    /\ FailuresClassified

-----------------------------------------------------------------------------
(* ProviderCalls: one call *)

\* The invariant of the whole follows from that of the call a step was about, since the
\* adapter's tokens only grow.
LEMMA OneCallStep ==
  ASSUME CallsIInv, CallsTypeOK', TokensOrdered',
         token <= token', UNCHANGED adapter,
         NEW c \in Calls,
         \A d \in Calls \ {c} : call'[d] = call[d],
         CallTokens(c)', CallProgress(c)',
         LET s == call'[c]
         IN  /\ s.result = "escaped" => adapter = "codex" /\ s.opened
             /\ s.result = "transient" => \/ s.attempt = MaxAttempts \/ s.opened
                                          \/ adapter = "oauth" /\ s.mode = "stream"
             /\ s.result = "permanent" =>
                  s.error \in {"refused", "rejected"} \/ adapter = "oauth"
             /\ s.result = "plain" => adapter = "oauth" /\ s.mode = "stream" /\ ~s.opened
  PROVE  CallsIInv'
<1>1. ASSUME NEW d \in Calls PROVE CallTokens(d)' /\ CallProgress(d)'
  <2>1. CASE d = c BY <2>1
  <2>2. CASE d # c
    <3>1. call'[d] = call[d] BY <2>2
    <3>2. call[d] \in CallStates BY DEF CallsIInv, CallsTypeOK
    <3>3. token \in Int /\ token' \in Int
      BY ProviderCallsAssumption DEF CallsIInv, CallsTypeOK, Tokens
    <3> QED BY <3>1, <3>2, <3>3, ProviderCallsAssumption
            DEF CallsIInv, CallTokens, CallProgress, CallStates, Tokens
  <2> QED BY <2>1, <2>2
<1>2. FailuresClassified'
  <2> SUFFICES ASSUME NEW d \in Calls
      PROVE LET s == call'[d]
            IN  /\ s.result = "escaped" => adapter' = "codex" /\ s.opened
                /\ s.result = "transient" =>
                     s.attempt = MaxAttempts \/ s.opened \/ OAuthStream(d)'
                /\ s.result = "permanent" =>
                     s.error \in {"refused", "rejected"} \/ adapter' = "oauth"
                /\ s.result = "plain" => OAuthStream(d)' /\ ~s.opened
      BY DEF FailuresClassified
  <2>1. CASE d = c BY <2>1 DEF OAuthStream
  <2>2. CASE d # c
    <3>1. call'[d] = call[d] BY <2>2
    <3> QED BY <3>1 DEF CallsIInv, FailuresClassified, OAuthStream
  <2> QED BY <2>1, <2>2
<1> QED BY <1>1, <1>2 DEF CallsIInv

\* A failed attempt ends in another one, or in a failure that is classified.
LEMMA FailedAttempt ==
  ASSUME CallsIInv, NEW c \in Calls, NEW error \in Errors,
         call[c].at \in {"await", "awaitAgain", "reload"},
         AttemptFails(c, error),
         UNCHANGED <<adapter, issued, authFile, token, clientToken>>
  PROVE  CallsIInv'
<1> DEFINE s == call[c]
           t == [s EXCEPT !.error = error,
                          !.at = IF Retries(c, error) THEN "send" ELSE "done",
                          !.result = IF Retries(c, error) THEN "none"
                                     ELSE IF OAuthStream(c) /\ error # "dropped" THEN "plain"
                                     ELSE Wrapped(error)]
<1>1. s \in CallStates /\ call \in [Calls -> CallStates] BY DEF CallsIInv, CallsTypeOK
<1>2. call' = [call EXCEPT ![c] = t] BY <1>1 DEF AttemptFails, CallStates
<1>3. call'[c] = t /\ \A d \in Calls \ {c} : call'[d] = call[d] BY <1>1, <1>2
<1>4. Wrapped(error) \in {"transient", "permanent"} BY DEF Wrapped
<1>5. t \in CallStates
  <2>1. /\ error \in Errors \cup {"none"}
        /\ t.result \in Failures \cup {"none", "answered"}
    BY <1>1, <1>4 DEF CallStates, Failures
  <2> QED BY <1>1, <2>1 DEF CallStates
<1>6. CallsTypeOK' BY <1>1, <1>2, <1>5 DEF CallsIInv, CallsTypeOK
<1>7. TokensOrdered' BY DEF CallsIInv, TokensOrdered
<1>8. token \in Int /\ token <= token'
  BY ProviderCallsAssumption DEF CallsIInv, CallsTypeOK, Tokens
<1>9. ~s.opened /\ s.result = "none" BY DEF CallsIInv, CallProgress
<1>10. t.used = s.used /\ t.rejected = s.rejected /\ t.opened = s.opened
       /\ t.attempt = s.attempt /\ t.mode = s.mode /\ t.error = error
       /\ t.at = (IF Retries(c, error) THEN "send" ELSE "done")
  BY <1>1 DEF CallStates
<1>11. CallTokens(c)' BY <1>3, <1>10 DEF CallsIInv, CallTokens
<1>12. CallProgress(c)'
  <2>1. Retries(c, error) => s.attempt < MaxAttempts BY DEF Retries
  <2> QED BY <1>1, <1>3, <1>9, <1>10, <2>1 DEF CallProgress, CallStates
<1>13. /\ t.result # "escaped"
       /\ t.result = "transient" => \/ s.attempt = MaxAttempts
                                    \/ adapter = "oauth" /\ s.mode = "stream"
       /\ t.result = "permanent" => error \in {"refused", "rejected"} \/ adapter = "oauth"
       /\ t.result = "plain" => adapter = "oauth" /\ s.mode = "stream"
  <2>1. s.attempt \in 0..MaxAttempts BY <1>1 DEF CallStates
  <2>2. CASE Retries(c, error) BY <1>1, <2>2 DEF CallStates
  <2>3. CASE ~Retries(c, error) /\ OAuthStream(c)
    BY <1>1, <2>3 DEF CallStates, OAuthStream, Wrapped, IsTransient, Errors
  <2>4. CASE ~Retries(c, error) /\ ~OAuthStream(c)
    <3>1. t.result = Wrapped(error) BY <1>1, <2>4 DEF CallStates
    <3>2. IsTransient(error) => s.attempt = MaxAttempts
      BY <2>1, <2>4, ProviderCallsAssumption DEF Retries
    <3> QED BY <3>1, <3>2 DEF Wrapped, IsTransient, Errors
  <2> QED BY <2>2, <2>3, <2>4
<1> HIDE DEF t, s
<1> QED BY <1>3, <1>6, <1>7, <1>8, <1>9, <1>10, <1>11, <1>12, <1>13, OneCallStep DEF s, t

\* A call that goes on without failing: its fields change, not its result.
LEMMA CallGoesOn ==
  ASSUME CallsIInv, NEW c \in Calls, NEW s \in CallStates,
         call' = [call EXCEPT ![c] = s],
         s.result \in {"none", "answered"},
         CallTokens(c)', CallProgress(c)',
         UNCHANGED <<adapter, issued, authFile, token, clientToken>>
  PROVE  CallsIInv'
<1>1. call \in [Calls -> CallStates] BY DEF CallsIInv, CallsTypeOK
<1>2. call'[c] = s /\ \A d \in Calls \ {c} : call'[d] = call[d] BY <1>1
<1>3. CallsTypeOK' /\ TokensOrdered'
  BY <1>1 DEF CallsIInv, CallsTypeOK, TokensOrdered
<1>4. token \in Int /\ token <= token'
  BY ProviderCallsAssumption DEF CallsIInv, CallsTypeOK, Tokens
<1>5. /\ s.result = "escaped" => adapter = "codex" /\ s.opened
      /\ s.result = "transient" => \/ s.attempt = MaxAttempts \/ s.opened
                                   \/ adapter = "oauth" /\ s.mode = "stream"
      /\ s.result = "permanent" =>
           s.error \in {"refused", "rejected"} \/ adapter = "oauth"
      /\ s.result = "plain" => adapter = "oauth" /\ s.mode = "stream" /\ ~s.opened
  BY DEF CallsIInv, FailuresClassified, OAuthStream
<1> QED BY <1>2, <1>3, <1>4, <1>5, OneCallStep

\* What the invariant says of one call, in the form the steps use.
LEMMA CallFacts ==
  ASSUME CallsIInv, NEW c \in Calls
  PROVE  /\ call \in [Calls -> CallStates] /\ call[c] \in CallStates
         /\ CallTokens(c) /\ CallProgress(c) /\ TokensOrdered
         /\ token \in Tokens /\ clientToken \in Tokens
         /\ authFile \in Tokens /\ issued \in Tokens
         /\ MaxAttempts \in Nat \ {0} /\ MaxRotations \in Nat
         /\ call[c].used \in Int /\ call[c].rejected \in Int
         /\ call[c].attempt \in 0..MaxAttempts
<1>1. call[c] \in CallStates BY DEF CallsIInv, CallsTypeOK
<1> QED BY <1>1, ProviderCallsAssumption
        DEF CallsIInv, CallsTypeOK, CallStates, Tokens

\* A call takes the token the adapter has.
LEMMA BeginKeeps == ASSUME CallsIInv, NEW c \in Calls, Begin(c) PROVE CallsIInv'
<1> DEFINE s == [call[c] EXCEPT !.at = "send"]
<1>1. call' = [call EXCEPT ![c] = s] BY CallFacts DEF Begin, CallStates
<1>2. s \in CallStates BY CallFacts DEF CallStates
<1>3. s.result = "none" BY CallFacts DEF Begin, CallProgress, CallStates
<1>4. call'[c] = s BY <1>1, CallFacts
<1>5. CallTokens(c)' /\ CallProgress(c)'
  BY <1>4, CallFacts DEF Begin, CallTokens, CallProgress, CallStates
<1> HIDE DEF s
<1> QED BY <1>1, <1>2, <1>3, <1>5, CallGoesOn DEF Begin

\* An attempt is sent.
LEMMA SendKeeps == ASSUME CallsIInv, NEW c \in Calls, Send(c) PROVE CallsIInv'
<1> DEFINE s == [call[c] EXCEPT !.at = "await", !.attempt = @ + 1,
                                !.used = clientToken, !.rejected = -1]
<1>1. call' = [call EXCEPT ![c] = s] BY CallFacts DEF Send, CallStates
<1>2. call[c].attempt + 1 \in 0..MaxAttempts BY CallFacts DEF Send, CallProgress
<1>3. s \in CallStates BY <1>2, CallFacts DEF CallStates
<1>4. s.result = "none" BY CallFacts DEF Send, CallProgress, CallStates
<1>5. call'[c] = s BY <1>1, CallFacts
<1>6. CallTokens(c)'
  BY <1>5, CallFacts DEF Send, CallTokens, CallStates, TokensOrdered, Tokens
<1>7. CallProgress(c)'
  BY <1>5, CallFacts DEF Send, CallProgress, CallStates
<1> HIDE DEF s
<1> QED BY <1>1, <1>3, <1>4, <1>6, <1>7, CallGoesOn DEF Send

\* The provider answers.
LEMMA SucceedsKeeps == ASSUME CallsIInv, NEW c \in Calls, Succeeds(c) PROVE CallsIInv'
<1> DEFINE s == IF call[c].mode = "chat"
                THEN [call[c] EXCEPT !.at = "done", !.result = "answered"]
                ELSE [call[c] EXCEPT !.at = "streaming", !.opened = TRUE]
<1>1. call' = [call EXCEPT ![c] = s] BY CallFacts DEF Succeeds, CallStates
<1>2. s \in CallStates BY CallFacts DEF CallStates
<1>3. call[c].result = "none" BY CallFacts DEF Succeeds, Awaits, CallProgress
<1>4. s.result \in {"none", "answered"} BY <1>3, CallFacts DEF CallStates
<1>5. call'[c] = s BY <1>1, CallFacts
<1>6. CallTokens(c)' BY <1>5, CallFacts DEF Succeeds, CallTokens, CallStates
<1>7. CallProgress(c)'
  BY <1>3, <1>5, CallFacts DEF Succeeds, Awaits, CallProgress, CallStates
<1> HIDE DEF s
<1> QED BY <1>1, <1>2, <1>4, <1>6, <1>7, CallGoesOn DEF Succeeds

\* A 401, on the OAuth path.
LEMMA RejectedKeeps == ASSUME CallsIInv, NEW c \in Calls, Rejected(c) PROVE CallsIInv'
<1>1. CASE call[c].at = "await"
  <2> DEFINE s == [call[c] EXCEPT !.at = "reload", !.rejected = call[c].used]
  <2>1. call' = [call EXCEPT ![c] = s] BY <1>1, CallFacts DEF Rejected, CallStates
  <2>2. s \in CallStates BY CallFacts DEF CallStates
  <2>3. s.result = "none" BY <1>1, CallFacts DEF CallProgress, CallStates
  <2>4. call'[c] = s BY <2>1, CallFacts
  <2>5. CallTokens(c)' /\ CallProgress(c)'
    BY <1>1, <2>4, CallFacts DEF Rejected, CallTokens, CallProgress, CallStates
  <2> HIDE DEF s
  <2> QED BY <2>1, <2>2, <2>3, <2>5, CallGoesOn DEF Rejected
<1>2. CASE call[c].at # "await"
  BY <1>2, FailedAttempt DEF Rejected, Awaits, Errors
<1> QED BY <1>1, <1>2

\* The token is read from auth.json, and it is another one.
LEMMA ReloadKeeps == ASSUME CallsIInv, NEW c \in Calls, Reload(c) PROVE CallsIInv'
<1> DEFINE s == [call[c] EXCEPT !.at = "resend"]
<1>1. call' = [call EXCEPT ![c] = s] BY CallFacts DEF Reload, CallStates
<1>2. s \in CallStates BY CallFacts DEF CallStates
<1>3. call'[c] = s /\ \A d \in Calls \ {c} : call'[d] = call[d] BY <1>1, CallFacts
<1>4. token < token'
  BY CallFacts DEF Reload, TokensOrdered, Tokens
<1>5. CallsTypeOK' /\ TokensOrdered'
  BY <1>1, <1>2, CallFacts DEF Reload, CallsIInv, CallsTypeOK, TokensOrdered, Tokens
<1>6. CallTokens(c)'
  BY <1>3, <1>4, CallFacts DEF Reload, CallTokens, CallStates, Tokens
<1>7. s.result = "none" BY CallFacts DEF Reload, CallProgress, CallStates
<1>8. CallProgress(c)' BY <1>3, <1>7, CallFacts DEF Reload, CallProgress, CallStates
<1>9. token <= token' BY <1>4, <1>5, CallFacts DEF CallsTypeOK, Tokens
<1> HIDE DEF s
<1> QED BY <1>3, <1>5, <1>6, <1>7, <1>8, <1>9, OneCallStep DEF Reload

\* The request is sent again with the token that was read.
LEMMA ResendKeeps == ASSUME CallsIInv, NEW c \in Calls, Resend(c) PROVE CallsIInv'
<1> DEFINE s == [call[c] EXCEPT !.at = "awaitAgain", !.used = clientToken]
<1>1. call' = [call EXCEPT ![c] = s] BY CallFacts DEF Resend, CallStates
<1>2. s \in CallStates BY CallFacts DEF CallStates
<1>3. s.result = "none" BY CallFacts DEF Resend, CallProgress, CallStates
<1>4. call'[c] = s BY <1>1, CallFacts
<1>5. CallTokens(c)'
  BY <1>4, CallFacts DEF Resend, CallTokens, CallStates, TokensOrdered, Tokens
<1>6. CallProgress(c)' BY <1>4, CallFacts DEF Resend, CallProgress, CallStates
<1> HIDE DEF s
<1> QED BY <1>1, <1>2, <1>3, <1>5, <1>6, CallGoesOn DEF Resend

\* A stream comes to its end.
LEMMA EndsWellKeeps ==
  ASSUME CallsIInv, NEW c \in Calls, StreamEndsWell(c) PROVE CallsIInv'
<1> DEFINE s == [call[c] EXCEPT !.at = "done", !.result = "answered"]
<1>1. call' = [call EXCEPT ![c] = s] BY CallFacts DEF StreamEndsWell, CallStates
<1>2. s \in CallStates BY CallFacts DEF CallStates
<1>3. s.result = "answered" BY CallFacts DEF CallStates
<1>4. call'[c] = s BY <1>1, CallFacts
<1>5. CallTokens(c)' /\ CallProgress(c)'
  BY <1>4, CallFacts DEF CallTokens, CallProgress, CallStates, StreamEndsWell
<1> HIDE DEF s
<1> QED BY <1>1, <1>2, <1>3, <1>5, CallGoesOn DEF StreamEndsWell

\* A stream breaks off, or brings an error.
LEMMA BreaksOffKeeps ==
  ASSUME CallsIInv, NEW c \in Calls, StreamBreaksOff(c) PROVE CallsIInv'
<1>1. PICK error \in {"dropped", "refused"} :
        call' = [call EXCEPT ![c].at = "done", ![c].error = error,
                             ![c].result = IF adapter = "codex" THEN "escaped"
                                           ELSE Wrapped(error)]
  BY DEF StreamBreaksOff
<1> DEFINE ending == IF adapter = "codex" THEN "escaped" ELSE Wrapped(error)
           s == [call[c] EXCEPT !.at = "done", !.error = error, !.result = ending]
<1>2. call' = [call EXCEPT ![c] = s] BY <1>1, CallFacts DEF CallStates
<1>3. ending \in Failures BY DEF Failures, Wrapped
<1>4. s \in CallStates
  <2>1. error \in Errors /\ call[c] \in CallStates BY CallFacts DEF Errors
  <2> HIDE DEF ending
  <2> QED BY <1>3, <2>1 DEF CallStates
<1>5. call'[c] = s /\ \A d \in Calls \ {c} : call'[d] = call[d] BY <1>2, CallFacts
<1>6. CallsTypeOK' /\ TokensOrdered'
  BY <1>2, <1>4, CallFacts
     DEF StreamBreaksOff, CallsIInv, CallsTypeOK, TokensOrdered, Tokens
<1>7. /\ s.result = ending /\ s.error = error /\ s.at = "done"
      /\ s.opened = call[c].opened /\ s.used = call[c].used
      /\ s.rejected = call[c].rejected /\ s.attempt = call[c].attempt
      /\ s.mode = call[c].mode
  BY CallFacts DEF CallStates
<1>8. call[c].opened BY CallFacts DEF StreamBreaksOff, CallProgress
<1>9. CallTokens(c)' /\ CallProgress(c)'
  BY <1>5, <1>7, CallFacts DEF StreamBreaksOff, CallTokens, CallProgress
<1>10. /\ ending = "escaped" => adapter = "codex"
       /\ ending = "permanent" => error = "refused"
       /\ ending # "plain"
  BY DEF Wrapped, IsTransient
<1>11. token <= token' BY CallFacts DEF StreamBreaksOff, Tokens
<1> HIDE DEF s, ending
<1> QED BY <1>5, <1>6, <1>7, <1>8, <1>9, <1>10, <1>11, OneCallStep DEF StreamBreaksOff

-----------------------------------------------------------------------------
(* ProviderCalls: the specification *)

\* Before the first call.
LEMMA CallsInitSound == CallsInit => CallsIInv
<1> SUFFICES ASSUME CallsInit PROVE CallsIInv OBVIOUS
<1>1. PICK mode \in [Calls -> {"chat", "stream"}] :
        call = [c \in Calls |->
                  [at |-> "new", mode |-> mode[c], attempt |-> 0, used |-> 0,
                   rejected |-> -1, error |-> "none", result |-> "none",
                   opened |-> FALSE]]
  BY DEF CallsInit
<1>2. CallsTypeOK
  BY <1>1, ProviderCallsAssumption
     DEF CallsInit, CallsTypeOK, CallStates, Tokens, Errors, Failures
<1> QED BY <1>1, <1>2, ProviderCallsAssumption
        DEF CallsInit, CallsIInv, TokensOrdered, CallTokens, CallProgress,
            FailuresClassified

\* The issuer and auth.json go on to newer tokens.
LEMMA TokensMove == ASSUME CallsIInv, Issue \/ Rotate PROVE CallsIInv'
<1>1. token \in Int /\ authFile \in Int /\ issued \in Int /\ MaxRotations \in Nat
  BY ProviderCallsAssumption DEF CallsIInv, CallsTypeOK, Tokens
<1>2. call' = call /\ adapter' = adapter /\ token' = token /\ clientToken' = clientToken
  BY DEF Issue, Rotate
<1>3. CallsTypeOK'
  BY <1>1, <1>2 DEF CallsIInv, CallsTypeOK, Issue, Rotate, Tokens
<1>4. TokensOrdered'
  BY <1>1, <1>2 DEF CallsIInv, TokensOrdered, Issue, Rotate
<1>5. \A c \in Calls : CallTokens(c)' /\ CallProgress(c)'
  BY <1>2 DEF CallsIInv, CallTokens, CallProgress
<1>6. FailuresClassified'
  BY <1>2 DEF CallsIInv, FailuresClassified, OAuthStream
<1> QED BY <1>3, <1>4, <1>5, <1>6 DEF CallsIInv

\* Every step of a call (chat, its retries, the reload of the token, the stream), and the
\* rotation of tokens around them, preserves the invariant.
THEOREM CallsInvariant == CallsSpec => []CallsIInv
<1>1. CallsIInv /\ [CallsNext]_callVars => CallsIInv'
  <2> SUFFICES ASSUME CallsIInv, [CallsNext]_callVars PROVE CallsIInv' OBVIOUS
  <2>1. CASE UNCHANGED callVars
    BY <2>1 DEF callVars, CallsIInv, CallsTypeOK, TokensOrdered, CallTokens, CallProgress,
                FailuresClassified, OAuthStream
  <2>2. ASSUME NEW c \in Calls,
               Begin(c) \/ Send(c) \/ Succeeds(c) \/ Fails(c) \/ Rejected(c) \/ Reload(c)
               \/ ReloadInVain(c) \/ Resend(c) \/ StreamEndsWell(c) \/ StreamBreaksOff(c)
        PROVE CallsIInv'
    <3>1. CASE Begin(c) BY <3>1, BeginKeeps
    <3>2. CASE Send(c) BY <3>2, SendKeeps
    <3>3. CASE Succeeds(c) BY <3>3, SucceedsKeeps
    <3>4. CASE Fails(c) BY <3>4, FailedAttempt DEF Fails, Awaits, Errors
    <3>5. CASE Rejected(c) BY <3>5, RejectedKeeps
    <3>6. CASE Reload(c) BY <3>6, ReloadKeeps
    <3>7. CASE ReloadInVain(c) BY <3>7, FailedAttempt DEF ReloadInVain, Errors
    <3>8. CASE Resend(c) BY <3>8, ResendKeeps
    <3>9. CASE StreamEndsWell(c) BY <3>9, EndsWellKeeps
    <3>10. CASE StreamBreaksOff(c) BY <3>10, BreaksOffKeeps
    <3> QED BY <2>2, <3>1, <3>2, <3>3, <3>4, <3>5, <3>6, <3>7, <3>8, <3>9, <3>10
  <2>3. CASE Issue \/ Rotate BY <2>3, TokensMove
  <2> QED BY <2>1, <2>2, <2>3 DEF CallsNext
<1> QED BY CallsInitSound, <1>1, PTL DEF CallsSpec

\* Type correctness, for any calls, attempts and rotations.
THEOREM CallsTypeCorrect == CallsSpec => []CallsTypeOK
<1>1. CallsIInv => CallsTypeOK BY DEF CallsIInv
<1> QED BY <1>1, CallsInvariant, PTL

\* However many calls share the adapter and reload its token, none is sent again with the
\* token it was rejected with.
THEOREM RejectedStaysUnsent == CallsSpec => []RejectedTokenNotResent
<1>1. CallsIInv => RejectedTokenNotResent
  BY CallFacts DEF RejectedTokenNotResent, CallTokens
<1> QED BY <1>1, CallsInvariant, PTL

\* The router learns of every failure in the class that its cause and the attempts spent on
\* it call for.
THEOREM FailuresAreClassified == CallsSpec => []FailuresClassified
<1>1. CallsIInv => FailuresClassified BY DEF CallsIInv
<1> QED BY <1>1, CallsInvariant, PTL

-----------------------------------------------------------------------------
(***************************************************************************)
(* SessionStall.  The counts of the detector are runs at the end of the    *)
(* history: each is the least of the ways to go back that stop, found by   *)
(* induction over the length.  A session in the store that was not         *)
(* reported yet has a report left, and no entry is from the future: the    *)
(* one a request is made for is never the oldest that the cap pushes out.  *)
(***************************************************************************)

(* SessionStall: what is detected in a history *)

\* The n last of a finite set of numbers.
LEMMA LastOnes ==
  ASSUME NEW S, S \subseteq Int, IsFiniteSet(S), NEW bound \in Int, \A x \in S : x <= bound
  PROVE  \A n \in Nat : n <= Cardinality(S) =>
           \E T \in SUBSET S : /\ Cardinality(T) = n
                               /\ \A x \in S, e \in T : x > e => x \in T
<1> DEFINE Ok(n) == n <= Cardinality(S) =>
                      \E T \in SUBSET S : /\ Cardinality(T) = n
                                          /\ \A x \in S, e \in T : x > e => x \in T
           good == {n \in Nat : Ok(n)}
<1>1. 0 \in good
  <2>1. {} \in SUBSET S /\ Cardinality({}) = 0 BY FS_EmptySet
  <2> QED BY <2>1
<1>2. ASSUME NEW n \in Nat, n \in good PROVE n + 1 \in good
  <2> SUFFICES ASSUME n + 1 <= Cardinality(S) PROVE Ok(n + 1) OBVIOUS
  <2>1. Cardinality(S) \in Nat BY FS_CardinalityType
  <2>2. n <= Cardinality(S) BY <2>1
  <2>3. PICK T \in SUBSET S : /\ Cardinality(T) = n
                              /\ \A x \in S, e \in T : x > e => x \in T
    BY <1>2, <2>2
  <2>4. S \ T # {}
    <3> SUFFICES ASSUME S \ T = {} PROVE FALSE OBVIOUS
    <3>1. S = T OBVIOUS
    <3> QED BY <2>1, <2>3, <3>1
  <2>5. PICK m \in S \ T : \A x \in S \ T : x <= m BY <2>4, GreatestOf
  <2>6. IsFiniteSet(T) BY FS_Subset
  <2>7. Cardinality(T \cup {m}) = n + 1 BY <2>3, <2>5, <2>6, FS_AddElement
  <2>8. ASSUME NEW x \in S, NEW e \in T \cup {m}, x > e PROVE x \in T \cup {m}
    <3>1. x \in Int /\ m \in Int OBVIOUS
    <3> QED BY <2>3, <2>5, <2>8, <3>1
  <2>9. T \cup {m} \in SUBSET S OBVIOUS
  <2> QED BY <2>7, <2>8, <2>9
<1> HIDE DEF good
<1>3. \A n \in Nat : n \in good BY <1>1, <1>2, Induction
<1> QED BY <1>3 DEF good

\* The detector of loops, against the history.
LEMMA LoopFound ==
  ASSUME NEW h \in Seq(Turns), ~LoopRaises(h)
  PROVE  TrailingIdenticalRun(h) >= Repeats <=> Looping(h)
<1>1. Len(h) \in Nat /\ DOMAIN h = 1..Len(h) /\ Repeats \in Nat BY SessionStallAssumption
<1>2. CASE CallsNothing(h)
  <2>1. TrailingIdenticalRun(h) = 0 BY <1>2 DEF TrailingIdenticalRun
  <2>2. ~(0 >= Repeats) BY <1>2, <2>1 DEF LoopRaises
  <2>3. ~Looping(h)
    <3>1. CASE h = <<>> BY <1>1, <2>2, <3>1 DEF Looping
    <3>2. CASE h[Len(h)].tool = "none" BY <3>2 DEF Looping
    <3> QED BY <1>2, <3>1, <3>2 DEF CallsNothing
  <2> QED BY <2>1, <2>2, <2>3
<1>3. CASE ~CallsNothing(h)
  <2> DEFINE run == {n \in 0..Len(h) :
                       \A i \in (Len(h) - n + 1)..Len(h) : h[i].tool \in {h[Len(h)].tool}}
  <2>1. TrailingIdenticalRun(h) = Max(run)
    BY <1>3 DEF TrailingIdenticalRun, TrailingRun
  <2>2. 0 \in run BY <1>1
  <2>3. Max(run) \in run /\ \A n \in run : n <= Max(run)
    <3>1. run \subseteq Int /\ run # {} /\ Len(h) \in Int /\ \A n \in run : n <= Len(h)
      BY <1>1, <2>2
    <3> HIDE DEF run
    <3> QED BY <3>1, GreatestOf
  <2>4. PICK top \in 0..Len(h) : top = Max(run) BY <2>3
  <2>5. Looping(h) <=> Repeats \in run
    <3>1. h[Len(h)].tool # "none" BY <1>3 DEF CallsNothing
    <3>2. Repeats \in 0..Len(h) <=> Len(h) >= Repeats BY <1>1
    <3> QED BY <3>1, <3>2 DEF Looping
  <2>6. ASSUME Repeats <= top PROVE Repeats \in run
    <3>1. Repeats \in 0..Len(h) BY <1>1, <2>6
    <3>2. \A i \in (Len(h) - Repeats + 1)..Len(h) : i \in (Len(h) - top + 1)..Len(h)
      BY <1>1, <2>6
    <3> QED BY <2>3, <2>4, <3>1, <3>2
  <2>7. top >= Repeats <=> Repeats \in run
    <3> HIDE DEF run
    <3> QED BY <1>1, <2>3, <2>4, <2>6
  <2> HIDE DEF run
  <2> QED BY <2>1, <2>4, <2>5, <2>7
<1> QED BY <1>2, <1>3

\* The detector of failing tools, against the history.
LEMMA ErrorsFound ==
  ASSUME NEW h \in Seq(Turns), NEW surface \in {"messages", "chat"}
  PROVE  TrailingErrorRun(h, surface) >= Errored
           <=> (surface = "messages" \/ Errored = 0) /\ StuckOnErrors(h)
<1> DEFINE results == {i \in DOMAIN h : h[i].tool # "none"}
           Failed(i) == surface = "messages" /\ h[i].error
           run == {i \in results : \A j \in results : j >= i => Failed(j)}
<1>1. Len(h) \in Nat /\ DOMAIN h = 1..Len(h) /\ Errored \in Nat BY SessionStallAssumption
<1>2. \A i \in DOMAIN h : h[i].error => i \in results
  <2> SUFFICES ASSUME NEW i \in DOMAIN h, h[i].error PROVE h[i].tool # "none" OBVIOUS
  <2>1. h[i] \in Turns OBVIOUS
  <2> QED BY <2>1 DEF Turns
<1>3. /\ run \subseteq 1..Len(h) /\ run \subseteq Int /\ \A x \in run : x <= Len(h)
      /\ IsFiniteSet(run)
  <2>1. run \subseteq 1..Len(h) BY <1>1
  <2>2. IsFiniteSet(1..Len(h)) BY <1>1, FS_Interval
  <2> HIDE DEF run
  <2>3. IsFiniteSet(run) BY <2>1, <2>2, FS_Subset
  <2>4. run \subseteq Int /\ \A x \in run : x <= Len(h) BY <1>1, <2>1
  <2> QED BY <2>1, <2>3, <2>4
<1>4. Cardinality(run) \in Nat BY <1>3, FS_CardinalityType
<1>5. TrailingErrorRun(h, surface) = Cardinality(run) BY DEF TrailingErrorRun
<1>6. ASSUME surface = "messages" \/ Errored = 0, StuckOnErrors(h)
      PROVE  Cardinality(run) >= Errored
  <2>1. PICK last \in SUBSET {i \in DOMAIN h : h[i].error} :
          /\ Cardinality(last) = Errored
          /\ \A i \in DOMAIN h, e \in last : h[i].tool # "none" /\ i > e => i \in last
    BY <1>6 DEF StuckOnErrors
  <2>2. CASE Errored = 0 BY <1>4, <2>2
  <2>3. CASE surface = "messages"
    <3>1. last \subseteq run
      <4> SUFFICES ASSUME NEW e \in last, NEW j \in results, j >= e PROVE h[j].error
        BY <1>2, <2>3
      <4>1. e \in Int /\ j \in Int BY <1>1
      <4>2. CASE j = e BY <4>2
      <4>3. CASE j # e
        <5>1. j > e BY <4>1, <4>3
        <5> QED BY <2>1, <5>1
      <4> QED BY <4>2, <4>3
    <3> HIDE DEF run
    <3>2. Cardinality(last) <= Cardinality(run) BY <1>3, <3>1, FS_Subset
    <3> QED BY <1>1, <1>4, <2>1, <3>2
  <2> QED BY <1>6, <2>2, <2>3
<1>7. ASSUME Cardinality(run) >= Errored
      PROVE  (surface = "messages" \/ Errored = 0) /\ StuckOnErrors(h)
  <2>1. PICK last \in SUBSET run : /\ Cardinality(last) = Errored
                                   /\ \A x \in run, e \in last : x > e => x \in last
    <3> HIDE DEF run
    <3>1. Len(h) \in Int /\ Errored <= Cardinality(run) BY <1>1, <1>4, <1>7
    <3> QED BY <1>1, <1>3, <3>1, LastOnes
  <2>2. \A i \in run : Failed(i) BY <1>1
  <2>3. last \in SUBSET {i \in DOMAIN h : h[i].error} BY <2>2
  <2>4. ASSUME NEW i \in DOMAIN h, NEW e \in last, h[i].tool # "none", i > e
        PROVE  i \in last
    <3>1. i \in run
      <4> SUFFICES ASSUME NEW j \in results, j >= i PROVE Failed(j) BY <2>4
      <4>1. e \in Int /\ i \in Int /\ j \in Int BY <1>1
      <4>2. j >= e BY <2>4, <4>1
      <4> QED BY <4>2
    <3> QED BY <2>1, <2>4, <3>1
  <2>5. StuckOnErrors(h) BY <2>1, <2>3, <2>4 DEF StuckOnErrors
  <2>6. surface = "messages" \/ Errored = 0
    <3> SUFFICES ASSUME surface # "messages" PROVE Errored = 0 OBVIOUS
    <3>1. run = {} BY <2>2
    <3> HIDE DEF run
    <3> QED BY <1>1, <1>7, <3>1, FS_EmptySet
  <2> QED BY <2>5, <2>6
<1> QED BY <1>5, <1>6, <1>7

\* The detector of edits that nothing looked at, against the history.
LEMMA UnseenEditFound ==
  ASSUME NEW h \in Seq(Turns)
  PROVE  PatchBeforeExplore(h) <=> EditsUnseen(h)
<1> DEFINE edits == {i \in DOMAIN h : h[i].tool = "edit"}
           reads == {i \in DOMAIN h : h[i].tool = "read"}
<1>1. Len(h) \in Nat /\ DOMAIN h = 1..Len(h) OBVIOUS
<1>2. PatchBeforeExplore(h) <=> edits # {} /\ (reads = {} \/ Min(edits) < Min(reads))
  BY DEF PatchBeforeExplore
<1>3. EditsUnseen(h) <=> \E i \in edits : \A j \in 1..i : j \notin reads
  <2>1. \A i \in DOMAIN h : \A j \in 1..i : j \in DOMAIN h BY <1>1
  <2> QED BY <2>1 DEF EditsUnseen
<1>4. edits \subseteq 1..Len(h) /\ reads \subseteq 1..Len(h) BY <1>1
<1>5. \A i \in edits : i \notin reads OBVIOUS
<1> HIDE DEF edits, reads
<1>6. ASSUME NEW S \in SUBSET (1..Len(h)), S # {}
      PROVE  Min(S) \in S /\ \A x \in S : Min(S) <= x
  <2>1. S \subseteq Int /\ 1 \in Int /\ \A x \in S : 1 <= x BY <1>1
  <2> QED BY <1>6, <2>1, LeastIs
<1>7. CASE edits = {} BY <1>2, <1>3, <1>7
<1>8. CASE edits # {} /\ reads = {} BY <1>2, <1>3, <1>8
<1>9. CASE edits # {} /\ reads # {}
  <2>1. PICK e \in edits : e = Min(edits) /\ \A x \in edits : e <= x BY <1>4, <1>6, <1>9
  <2>2. PICK r \in reads : r = Min(reads) /\ \A x \in reads : r <= x BY <1>4, <1>6, <1>9
  <2>3. e \in Int /\ r \in 1..Len(h) BY <1>4
  <2>4. ASSUME e < r PROVE \A j \in 1..e : j \notin reads BY <2>2, <2>3, <2>4
  <2>5. ASSUME NEW i \in edits, \A j \in 1..i : j \notin reads PROVE e < r
    <3>1. i \in Int /\ e <= i BY <1>4, <2>1
    <3>2. ~(r <= i) BY <2>3, <2>5, <3>1
    <3> QED BY <2>3, <3>1, <3>2
  <2> QED BY <1>2, <1>3, <1>9, <2>1, <2>2, <2>4, <2>5
<1> QED BY <1>7, <1>8, <1>9

\* What a request detects is what the history shows.
LEMMA StallFound ==
  ASSUME NEW h \in Seq(Turns), NEW surface \in {"messages", "chat"}, ~LoopRaises(h)
  PROVE  LET loops == Looping(h)
             errors == (surface = "messages" \/ Errored = 0) /\ StuckOnErrors(h)
             unseen == EditsUnseen(h)
         IN  Stalled(h, surface) <=>
                \/ Len(h) >= TurnFloor
                \/ loops /\ errors
                \/ loops /\ unseen
                \/ errors /\ unseen
<1> DEFINE loops == Looping(h)
           errors == (surface = "messages" \/ Errored = 0) /\ StuckOnErrors(h)
           unseen == EditsUnseen(h)
<1>1. StructuralCount(h, surface) = AsInt(loops) + AsInt(errors) + AsInt(unseen)
  <2>1. AsInt(TrailingIdenticalRun(h) >= Repeats) = AsInt(loops) BY LoopFound DEF AsInt
  <2>2. AsInt(TrailingErrorRun(h, surface) >= Errored) = AsInt(errors) BY ErrorsFound DEF AsInt
  <2>3. AsInt(PatchBeforeExplore(h)) = AsInt(unseen) BY UnseenEditFound DEF AsInt
  <2> QED BY <2>1, <2>2, <2>3, Zenon DEF StructuralCount
<1>2. AsInt(loops) + AsInt(errors) + AsInt(unseen) >= 2 <=>
        (loops /\ errors) \/ (loops /\ unseen) \/ (errors /\ unseen)
  <2> HIDE DEF loops, errors, unseen
  <2> QED BY DEF AsInt
<1>3. Stalled(h, surface) <=>
        \/ Len(h) >= TurnFloor
        \/ (loops /\ errors) \/ (loops /\ unseen) \/ (errors /\ unseen)
  <2> HIDE DEF loops, errors, unseen
  <2> QED BY <1>1, <1>2 DEF Stalled
<1> QED BY <1>3

-----------------------------------------------------------------------------
(* SessionStall: what is in the store *)

\* What the store holds: sessions with the time they were last seen, none of it in the
\* future; whoever is not yet reported for this stay has one report left.
EntryStates == [turns : Nat, fired : Nat, lastSeen : Int]

\* What was detected in the history as it is.
VerdictSound ==
    verdict.surface # "none" =>
      /\ verdict.raised = LoopRaises(history)
      /\ verdict.stalled = (~verdict.raised /\ Stalled(history, verdict.surface))

StallIInv ==
    /\ StallTypeOK /\ VerdictSound
    /\ \A s \in DOMAIN store : store[s].turns <= requests /\ store[s].fired <= requests
    /\ \A s \in Sessions : stays[s] <= requests
    /\ DOMAIN store \subseteq Sessions /\ IsFiniteSet(DOMAIN store)
    /\ store = [s \in DOMAIN store |-> store[s]]
    /\ \A s \in DOMAIN store : store[s] \in EntryStates /\ store[s].lastSeen <= clock
    /\ clock \in Int
    /\ reported \in [Sessions -> Nat] /\ stays \in [Sessions -> Nat]
    /\ \A s \in Sessions : reported[s] <= stays[s]
    /\ \A s \in DOMAIN store : store[s].fired = 0 => reported[s] < stays[s]

Detects(surface) == ~LoopRaises(history) /\ Stalled(history, surface)

\* The sessions a request works on, before the cap is enforced.
Considered(s) ==
    [t \in Unexpired \cup {s} |->
        IF t \in Unexpired THEN store[t] ELSE [turns |-> 0, fired |-> 0, lastSeen |-> Stamped]]

\* A request keeps some of the sessions it considered, its own among them, and changes
\* only its own entry.
LEMMA RequestKeepsItsOwn ==
  ASSUME StallIInv, NEW s \in Sessions, NEW surface \in {"messages", "chat"},
         StallRequest(s, surface)
  PROVE  LET considered == Considered(s)
             stalled == Detects(surface)
         IN  /\ s \in DOMAIN store'
             /\ DOMAIN store' \subseteq DOMAIN considered
             /\ store' = [t \in DOMAIN store' |->
                            IF t = s THEN Served(considered[s], stalled) ELSE considered[t]]
             /\ \A t \in DOMAIN considered :
                  considered[t] \in EntryStates /\ considered[t].lastSeen <= clock
             /\ IsFiniteSet(DOMAIN store') /\ Cardinality(DOMAIN store') <= MaxEntries
             /\ \A t \in DOMAIN considered \ DOMAIN store' :
                  /\ Cardinality(DOMAIN store') = MaxEntries
                  /\ \A k \in DOMAIN store' : considered[t].lastSeen <= considered[k].lastSeen
<1> DEFINE considered == Considered(s)
           stalled == Detects(surface)
           known == s \in Unexpired
<1>1. PICK kept \in SUBSET DOMAIN considered :
        /\ IF known THEN kept = DOMAIN considered ELSE Capped(considered, s, kept)
        /\ store' = Kept([considered EXCEPT ![s] = Served(@, stalled)], kept)
  BY DEF StallRequest, Considered, Detects
<1>2. DOMAIN considered = Unexpired \cup {s} BY DEF Considered
<1>3. DOMAIN store' = kept /\ store' = [t \in kept |->
          IF t = s THEN Served(considered[s], stalled) ELSE considered[t]]
  BY <1>1, <1>2 DEF Kept, Considered
<1>4. Unexpired \subseteq DOMAIN store BY DEF Unexpired
<1>5. IsFiniteSet(DOMAIN considered)
  BY <1>2, <1>4, FS_Subset, FS_AddElement DEF StallIInv
<1>6. \A t \in DOMAIN considered :
        considered[t] \in EntryStates /\ considered[t].lastSeen <= clock
  BY <1>2, <1>4 DEF StallIInv, EntryStates, Considered, Stamped
<1>7. IsFiniteSet(kept) /\ Cardinality(kept) \in Nat /\ Cardinality(DOMAIN considered) \in Nat
  BY <1>5, FS_Subset, FS_CardinalityType
<1>8. ASSUME NEW t \in DOMAIN considered \ kept
      PROVE  /\ Cardinality(kept) = MaxEntries
             /\ \A k \in kept : /\ considered[t].lastSeen <= considered[k].lastSeen
                                /\ t = s => considered[t].lastSeen < considered[k].lastSeen
  <2>1. ~known /\ Capped(considered, s, kept) BY <1>1, <1>8
  <2>2. Cardinality(kept) # Cardinality(DOMAIN considered)
    BY <1>5, <1>8, FS_Subset
  <2>3. Cardinality(kept) = MaxEntries BY <2>1, <2>2 DEF Capped
  <2>4. ASSUME NEW k \in kept
        PROVE  /\ considered[t].lastSeen <= considered[k].lastSeen
               /\ t = s => considered[t].lastSeen < considered[k].lastSeen
    <3>1. considered[t].lastSeen < considered[k].lastSeen + (IF t = s THEN 0 ELSE 1)
      BY <2>1, <2>4, <1>8 DEF Capped
    <3>2. considered[t].lastSeen \in Int /\ considered[k].lastSeen \in Int
      BY <1>6, <1>8, <2>4 DEF EntryStates
    <3> QED BY <3>1, <3>2
  <2> QED BY <2>3, <2>4
<1>9. s \in kept
  <2> SUFFICES ASSUME s \notin kept PROVE FALSE OBVIOUS
  <2>1. s \in DOMAIN considered \ kept BY <1>2
  <2>2. Cardinality(kept) = MaxEntries BY <1>8, <2>1
  <2>3. kept # {} BY <2>2, FS_EmptySet, SessionStallAssumption
  <2>4. PICK k \in kept : TRUE BY <2>3
  <2>5. considered[s].lastSeen < considered[k].lastSeen BY <1>8, <2>1, <2>4
  <2>6. s \notin Unexpired BY <1>1, <2>1
  <2>7. considered[s].lastSeen = clock BY <1>2, <2>6 DEF Considered, Stamped
  <2>8. considered[k].lastSeen <= clock /\ considered[k].lastSeen \in Int
    BY <1>6, <2>4 DEF EntryStates
  <2> QED BY <2>5, <2>7, <2>8 DEF StallIInv
<1>10. DOMAIN store' \subseteq DOMAIN considered BY <1>3
<1>11. Cardinality(kept) <= MaxEntries
  <2>1. MaxEntries \in Nat BY SessionStallAssumption
  <2>2. CASE known
    <3>1. kept \subseteq DOMAIN store BY <1>1, <1>2, <1>4, <2>2
    <3>2. Cardinality(kept) <= Cardinality(DOMAIN store)
      BY <3>1, FS_Subset DEF StallIInv
    <3>3. Cardinality(DOMAIN store) <= MaxEntries /\ Cardinality(DOMAIN store) \in Nat
      BY FS_CardinalityType DEF StallIInv, StallTypeOK
    <3> QED BY <1>7, <2>1, <3>2, <3>3
  <2>3. CASE ~known
    <3>1. Capped(considered, s, kept) BY <1>1, <2>3
    <3> HIDE DEF considered, known
    <3> QED BY <1>7, <2>1, <3>1 DEF Capped
  <2> QED BY <2>2, <2>3
<1> HIDE DEF considered, stalled, known
<1>12. /\ s \in DOMAIN store' /\ Cardinality(DOMAIN store') <= MaxEntries
       /\ store' = [t \in DOMAIN store' |->
                      IF t = s THEN Served(considered[s], stalled) ELSE considered[t]]
       /\ IsFiniteSet(DOMAIN store')
       /\ \A t \in DOMAIN considered \ DOMAIN store' :
            /\ Cardinality(DOMAIN store') = MaxEntries
            /\ \A k \in DOMAIN store' : considered[t].lastSeen <= considered[k].lastSeen
  BY <1>3, <1>7, <1>8, <1>9, <1>11
<1> QED BY <1>6, <1>10, <1>12 DEF considered, stalled

\* At first the store is empty.
LEMMA StallInitSound == StallInit => StallIInv
<1> SUFFICES ASSUME StallInit PROVE StallIInv OBVIOUS
<1>1. /\ store = [s \in {} |-> 0] /\ clock = 0 /\ requests = 0 /\ history = <<>>
      /\ verdict = [surface |-> "none", raised |-> FALSE, stalled |-> FALSE]
      /\ reported = [s \in Sessions |-> 0] /\ stays = [s \in Sessions |-> 0]
  BY DEF StallInit, NoVerdict
<1>2. DOMAIN store = {} /\ IsFiniteSet({}) /\ Cardinality({}) = 0 BY <1>1, FS_EmptySet
<1>3. StallTypeOK BY <1>1, <1>2, SessionStallAssumption DEF StallTypeOK
<1> QED BY <1>1, <1>2, <1>3 DEF StallIInv, VerdictSound

\* The hook counts the turn, renews the entry and remembers the first report.
LEMMA ServedEntry ==
  ASSUME StallIInv, NEW entry \in EntryStates, NEW stalled \in BOOLEAN
  PROVE  /\ Served(entry, stalled) \in EntryStates
         /\ Served(entry, stalled).lastSeen = clock
         /\ Served(entry, stalled).fired = 0 => entry.fired = 0 /\ ~stalled
         /\ Served(entry, stalled).turns = entry.turns + 1
         /\ \/ Served(entry, stalled).fired = entry.turns + 1
            \/ Served(entry, stalled).fired = entry.fired
<1>1. clock \in Int BY DEF StallIInv
<1>2. PICK t \in Nat, f \in Nat, l \in Int :
        entry = [turns |-> t, fired |-> f, lastSeen |-> l]
  BY DEF EntryStates
<1> DEFINE report == IF stalled /\ f = 0 THEN t + 1 ELSE f
<1>3. entry.turns = t /\ entry.fired = f BY <1>2
<1>4. Served(entry, stalled) =
        [[[entry EXCEPT !.turns = t + 1] EXCEPT !.lastSeen = clock] EXCEPT !.fired = report]
  BY <1>2, <1>3 DEF Served
<1>5. Served(entry, stalled) = [turns |-> t + 1, fired |-> report, lastSeen |-> clock]
  BY <1>2, <1>4
<1>6. report \in Nat /\ (report = 0 => f = 0 /\ ~stalled) /\ (report = t + 1 \/ report = f)
  OBVIOUS
<1> HIDE DEF report
<1> QED BY <1>1, <1>3, <1>5, <1>6 DEF EntryStates

\* A report is made only where one was left.
LEMMA RequestKeeps ==
  ASSUME StallIInv, NEW s \in Sessions, NEW surface \in {"messages", "chat"},
         StallRequest(s, surface)
  PROVE  StallIInv'
<1> DEFINE considered == Considered(s)
           stalled == Detects(surface)
           known == s \in Unexpired
<1>1. /\ clock' = clock
      /\ reported' = [reported EXCEPT ![s] =
                        IF stalled /\ considered[s].fired = 0 THEN @ + 1 ELSE @]
      /\ stays' = [stays EXCEPT ![s] = IF known THEN @ ELSE @ + 1]
  BY DEF StallRequest, Considered, Detects
<1>2. /\ DOMAIN considered = Unexpired \cup {s}
      /\ \A t \in Unexpired : considered[t] = store[t] /\ t \in DOMAIN store
      /\ ~known => considered[s].fired = 0 /\ considered[s].turns = 0
  BY DEF Considered, Unexpired
<1>3. /\ s \in DOMAIN store' /\ DOMAIN store' \subseteq DOMAIN considered
      /\ store' = [t \in DOMAIN store' |->
                     IF t = s THEN Served(considered[s], stalled) ELSE considered[t]]
      /\ \A t \in DOMAIN considered :
           considered[t] \in EntryStates /\ considered[t].lastSeen <= clock
      /\ IsFiniteSet(DOMAIN store') /\ Cardinality(DOMAIN store') <= MaxEntries
  BY RequestKeepsItsOwn
<1> HIDE DEF considered, stalled, known
<1>4. /\ Served(considered[s], stalled) \in EntryStates
      /\ Served(considered[s], stalled).lastSeen = clock
      /\ Served(considered[s], stalled).fired = 0 => considered[s].fired = 0 /\ ~stalled
      /\ Served(considered[s], stalled).turns = considered[s].turns + 1
      /\ \/ Served(considered[s], stalled).fired = considered[s].turns + 1
         \/ Served(considered[s], stalled).fired = considered[s].fired
  <2>1. considered[s] \in EntryStates BY <1>2, <1>3
  <2>2. stalled \in BOOLEAN BY DEF stalled, Detects
  <2> QED BY <2>1, <2>2, ServedEntry
<1>5. /\ DOMAIN store' \subseteq Sessions
      /\ \A t \in DOMAIN store' : store'[t] \in EntryStates /\ store'[t].lastSeen <= clock'
  BY <1>1, <1>2, <1>3, <1>4 DEF StallIInv
<1>6. reported' \in [Sessions -> Nat] /\ stays' \in [Sessions -> Nat]
  BY <1>1 DEF StallIInv
<1>7. /\ \A t \in Sessions : t # s => reported'[t] = reported[t] /\ stays'[t] = stays[t]
      /\ reported'[s] = IF stalled /\ considered[s].fired = 0 THEN reported[s] + 1 ELSE reported[s]
      /\ stays'[s] = IF known THEN stays[s] ELSE stays[s] + 1
      /\ reported[s] \in Nat /\ stays[s] \in Nat /\ reported[s] <= stays[s]
  BY <1>1 DEF StallIInv
<1>8. known => (considered[s].fired = 0 => reported[s] < stays[s])
  BY <1>2 DEF StallIInv, known
<1>9. reported'[s] <= stays'[s] /\ (considered[s].fired = 0 /\ ~stalled => reported'[s] < stays'[s])
  BY <1>2, <1>7, <1>8
<1>10. \A t \in Sessions : reported'[t] <= stays'[t] BY <1>7, <1>9 DEF StallIInv
<1>11. \A t \in DOMAIN store' : store'[t].fired = 0 => reported'[t] < stays'[t]
  <2> SUFFICES ASSUME NEW t \in DOMAIN store', store'[t].fired = 0
               PROVE  reported'[t] < stays'[t]
    OBVIOUS
  <2>1. CASE t = s BY <1>3, <1>4, <1>9, <2>1
  <2>2. CASE t # s
    <3>1. store'[t] = considered[t] BY <1>3, <2>2
    <3>2. t \in Unexpired BY <1>2, <1>3, <2>2
    <3>3. store[t].fired = 0 /\ t \in DOMAIN store BY <1>2, <3>1, <3>2
    <3> QED BY <1>5, <1>7, <2>2, <3>3 DEF StallIInv
  <2> QED BY <2>1, <2>2
<1>12. store' = [t \in DOMAIN store' |-> store'[t]] BY <1>3
<1>13. /\ requests \in Nat /\ requests' = requests + 1 /\ requests' \in 0..MaxRequests
       /\ history' = history /\ verdict'.surface = surface
       /\ verdict'.raised = LoopRaises(history) /\ verdict'.stalled = Detects(surface)
       /\ verdict' \in [surface : {"messages", "chat", "none"}, raised : BOOLEAN,
                        stalled : BOOLEAN]
  BY SessionStallAssumption DEF StallRequest, Detects, StallIInv, StallTypeOK, LoopRaises
<1>14. \A t \in DOMAIN store' : /\ store'[t].turns >= 1 /\ store'[t].turns <= requests'
                                /\ store'[t].fired <= requests'
  <2>1. considered[s].turns \in Nat /\ considered[s].turns <= requests
        /\ considered[s].fired \in Nat /\ considered[s].fired <= requests
    <3>1. considered[s].turns \in Nat /\ considered[s].fired \in Nat
      BY <1>2, <1>3 DEF EntryStates
    <3>2. CASE known BY <1>2, <3>1, <3>2 DEF StallIInv, known
    <3>3. CASE ~known BY <1>2, <1>13, <3>1, <3>3
    <3> QED BY <3>2, <3>3
  <2> SUFFICES ASSUME NEW t \in DOMAIN store'
               PROVE  /\ store'[t].turns >= 1 /\ store'[t].turns <= requests'
                      /\ store'[t].fired <= requests'
    OBVIOUS
  <2>2. CASE t = s
    <3>1. store'[t] = Served(considered[s], stalled) BY <1>3, <2>2
    <3> QED BY <1>4, <1>13, <2>1, <3>1
  <2>3. CASE t # s
    <3>1. store'[t] = store[t] /\ t \in DOMAIN store BY <1>2, <1>3, <2>3
    <3>2. /\ store[t].turns \in 1..MaxRequests /\ store[t].turns <= requests
          /\ store[t].fired \in 0..MaxRequests /\ store[t].fired <= requests
      BY <3>1 DEF StallIInv, StallTypeOK
    <3> QED BY <1>13, <3>1, <3>2
  <2> QED BY <2>2, <2>3
<1>15. \A t \in Sessions : stays'[t] <= requests'
  <2> SUFFICES ASSUME NEW t \in Sessions PROVE stays'[t] <= requests' OBVIOUS
  <2>1. stays[t] \in Nat /\ stays[t] <= requests BY DEF StallIInv
  <2>2. stays'[t] = stays[t] \/ stays'[t] = stays[t] + 1 BY <1>7
  <2> QED BY <1>13, <2>1, <2>2
<1>16. StallTypeOK'
  <2>1. \A t \in DOMAIN store' : store'[t] \in [turns : 1..MaxRequests, fired : 0..MaxRequests,
                                                lastSeen : 0..MaxTime]
    <3> SUFFICES ASSUME NEW t \in DOMAIN store'
                 PROVE  store'[t] \in [turns : 1..MaxRequests, fired : 0..MaxRequests,
                                       lastSeen : 0..MaxTime]
      OBVIOUS
    <3>1. PICK a \in Nat, f \in Nat, l \in Int :
            store'[t] = [turns |-> a, fired |-> f, lastSeen |-> l]
      BY <1>5 DEF EntryStates
    <3>2. a >= 1 /\ a <= requests' /\ f <= requests' BY <1>14, <3>1
    <3>3. l \in 0..MaxTime
      <4>1. clock \in 0..MaxTime BY DEF StallIInv, StallTypeOK
      <4>2. CASE t = s BY <1>3, <1>4, <3>1, <4>1, <4>2
      <4>3. CASE t # s
        <5>1. store'[t] = store[t] /\ t \in DOMAIN store BY <1>2, <1>3, <4>3
        <5>2. store[t].lastSeen \in 0..MaxTime BY <5>1 DEF StallIInv, StallTypeOK
        <5> QED BY <3>1, <5>1, <5>2
      <4> QED BY <4>2, <4>3
    <3>4. a \in 1..MaxRequests /\ f \in 0..MaxRequests
      BY <1>13, <3>2, SessionStallAssumption
    <3> QED BY <3>1, <3>3, <3>4
  <2>2. reported' \in [Sessions -> 0..MaxRequests] /\ stays' \in [Sessions -> 0..MaxRequests]
    <3>1. \A t \in Sessions : stays'[t] \in 0..MaxRequests /\ reported'[t] \in 0..MaxRequests
      <4> SUFFICES ASSUME NEW t \in Sessions
          PROVE stays'[t] \in 0..MaxRequests /\ reported'[t] \in 0..MaxRequests
        OBVIOUS
      <4>1. reported'[t] \in Nat /\ stays'[t] \in Nat BY <1>6
      <4>2. reported'[t] <= stays'[t] /\ stays'[t] <= requests' BY <1>10, <1>15
      <4> QED BY <1>13, <4>1, <4>2, SessionStallAssumption
    <3> QED BY <1>6, <3>1
  <2> QED BY <1>1, <1>3, <1>5, <1>13, <2>1, <2>2 DEF StallIInv, StallTypeOK
<1>17. VerdictSound' BY <1>13 DEF VerdictSound, Detects
<1> QED
  BY <1>1, <1>3, <1>5, <1>6, <1>10, <1>11, <1>12, <1>14, <1>15, <1>16, <1>17 DEF StallIInv

\* The conversation goes on, or another one does.
LEMMA OnlyHistory ==
  ASSUME StallIInv, history' \in Seq(Turns), verdict' = NoVerdict,
         UNCHANGED <<store, clock, requests, reported, stays>>
  PROVE  StallIInv'
<1>1. VerdictSound' BY DEF VerdictSound, NoVerdict
<1>2. StallTypeOK' BY DEF StallIInv, StallTypeOK, NoVerdict
<1> QED BY <1>1, <1>2 DEF StallIInv

\* However many sessions, requests and turns there are, `should_escalate` leaves the store
\* within its cap, with the session it was called for in it, and one report left for each
\* session that was not reported since it was taken in.
THEOREM StallInvariant == StallSpec => []StallIInv
<1>1. StallIInv /\ [StallNext]_stallVars => StallIInv'
  <2> SUFFICES ASSUME StallIInv, [StallNext]_stallVars PROVE StallIInv' OBVIOUS
  <2>1. CASE \E s \in Sessions, surface \in {"messages", "chat"} : StallRequest(s, surface)
    BY <2>1, RequestKeeps
  <2>2. CASE \E one \in Turns : Converse(one)
    <3>1. PICK one \in Turns : Converse(one) BY <2>2
    <3>2. history' \in Seq(Turns) BY <3>1 DEF Converse, StallIInv, StallTypeOK
    <3> QED BY <3>1, <3>2, OnlyHistory DEF Converse
  <2>3. CASE StartOver
    <3>1. history' \in Seq(Turns) BY <2>3 DEF StartOver
    <3> QED BY <2>3, <3>1, OnlyHistory DEF StartOver
  <2>4. CASE Tick
    <3>1. clock' = clock + 1 /\ UNCHANGED <<store, reported, stays>> BY <2>4 DEF Tick
    <3>2. \A s \in DOMAIN store : store[s].lastSeen \in Int BY DEF StallIInv, EntryStates
    <3>3. UNCHANGED <<requests, history, verdict>> /\ clock' \in 0..MaxTime
      BY <2>4, SessionStallAssumption DEF Tick, StallIInv, StallTypeOK
    <3>4. StallTypeOK' /\ VerdictSound'
      BY <3>1, <3>3 DEF StallIInv, StallTypeOK, VerdictSound
    <3> QED BY <3>1, <3>2, <3>3, <3>4 DEF StallIInv
  <2>5. CASE UNCHANGED stallVars
    BY <2>5 DEF stallVars, StallIInv, StallTypeOK, VerdictSound
  <2> QED BY <2>1, <2>2, <2>3, <2>4, <2>5 DEF StallNext
<1> QED BY StallInitSound, <1>1, PTL DEF StallSpec

\* Type correctness, for any thresholds, sessions and histories.
THEOREM StallTypeCorrect == StallSpec => []StallTypeOK
<1>1. StallIInv => StallTypeOK BY DEF StallIInv
<1> QED BY <1>1, StallInvariant, PTL

\* What detect_stall counts from the messages is what their history shows, however long it
\* is: the run of equal results at its end, the run of errors, and nothing behind the last
\* turn of the user.  Only a threshold of 0 makes it raise instead.
THEOREM VerdictIsTheHistorys == StallSpec => []VerdictMatchesHistory
<1>1. StallIInv => VerdictMatchesHistory
  <2> SUFFICES ASSUME StallIInv, verdict.surface # "none" PROVE VerdictMatchesHistory
    BY DEF VerdictMatchesHistory
  <2>1. /\ history \in Seq(Turns) /\ verdict.surface \in {"messages", "chat"}
        /\ verdict.raised = LoopRaises(history)
        /\ verdict.stalled = (~verdict.raised /\ Stalled(history, verdict.surface))
    BY DEF StallIInv, StallTypeOK, VerdictSound
  <2>2. CASE verdict.raised
    <3>1. Repeats = 0
      <4>1. TrailingIdenticalRun(history) = 0 /\ 0 >= Repeats
        BY <2>1, <2>2 DEF LoopRaises, TrailingIdenticalRun
      <4> QED BY <4>1, SessionStallAssumption
    <3> QED BY <2>1, <2>2, <3>1 DEF VerdictMatchesHistory
  <2>3. CASE ~verdict.raised
    <3>1. ~LoopRaises(history) BY <2>1, <2>3
    <3> QED BY <2>1, <2>3, <3>1, StallFound DEF VerdictMatchesHistory
  <2> QED BY <2>2, <2>3
<1> QED BY <1>1, StallInvariant, PTL

\* A session is reported at most once for each time `should_escalate` took it into the
\* store, however its requests and those of the others interleave.
THEOREM ReportedOnce == StallSpec => []ReportedOncePerStay
<1>1. StallIInv => ReportedOncePerStay BY DEF StallIInv, ReportedOncePerStay
<1> QED BY <1>1, StallInvariant, PTL

\* The formula of EvictedForCause, which is about every step.
ForCause ==
    /\ \A s \in DOMAIN store \ DOMAIN store' :
         \/ store[s].lastSeen < clock - Ttl
         \/ Cardinality({t \in DOMAIN store' : store'[t].lastSeen >= store[s].lastSeen})
              >= MaxEntries
    /\ \A s \in Sessions : stays'[s] # stays[s] => s \in DOMAIN store'

\* Those that stay when the cap pushes one out are as many as the cap, and none of them was
\* seen before it.
LEMMA RequestEvictsForCause ==
  ASSUME StallIInv, NEW r \in Sessions, NEW surface \in {"messages", "chat"},
         StallRequest(r, surface)
  PROVE  ForCause
<1> DEFINE considered == Considered(r)
           stalled == Detects(surface)
<1>1. /\ r \in DOMAIN store' /\ DOMAIN store' \subseteq DOMAIN considered
      /\ store' = [t \in DOMAIN store' |->
                     IF t = r THEN Served(considered[r], stalled) ELSE considered[t]]
      /\ \A t \in DOMAIN considered :
           considered[t] \in EntryStates /\ considered[t].lastSeen <= clock
      /\ \A t \in DOMAIN considered \ DOMAIN store' :
           /\ Cardinality(DOMAIN store') = MaxEntries
           /\ \A k \in DOMAIN store' : considered[t].lastSeen <= considered[k].lastSeen
  BY RequestKeepsItsOwn
<1>2. \A t \in Sessions : stays'[t] # stays[t] => t = r
  BY DEF StallRequest, StallIInv
<1>3. ASSUME NEW s \in DOMAIN store \ DOMAIN store', ~(store[s].lastSeen < clock - Ttl)
      PROVE  Cardinality({t \in DOMAIN store' : store'[t].lastSeen >= store[s].lastSeen})
               >= MaxEntries
  <2>1. s \in Unexpired /\ s \in DOMAIN considered /\ considered[s] = store[s]
    <3>1. store[s].lastSeen \in Int /\ clock \in Int /\ Ttl \in Int
      BY SessionStallAssumption DEF StallIInv, EntryStates
    <3>2. s \in Unexpired BY <1>3, <3>1 DEF Unexpired
    <3> QED BY <3>2 DEF Considered
  <2>2. \A k \in DOMAIN store' : store'[k].lastSeen >= considered[k].lastSeen
    <3>1. r \in DOMAIN considered BY DEF Considered
    <3>2. Served(considered[r], stalled).lastSeen = clock
      BY <1>1, <3>1 DEF Served, EntryStates
    <3> HIDE DEF considered, stalled
    <3> QED BY <1>1, <3>1, <3>2 DEF StallIInv, EntryStates
  <2>3. \A k \in DOMAIN store' : store'[k].lastSeen \in Int /\ considered[k].lastSeen \in Int
    <3>1. StallIInv'
      BY RequestKeeps
    <3> HIDE DEF considered, stalled
    <3> QED BY <1>1, <3>1 DEF StallIInv, EntryStates
  <2>4. store[s].lastSeen \in Int BY DEF StallIInv, EntryStates
  <2> HIDE DEF considered, stalled
  <2>5. \A k \in DOMAIN store' : store'[k].lastSeen >= store[s].lastSeen
    BY <1>1, <1>3, <2>1, <2>2, <2>3, <2>4
  <2>6. {t \in DOMAIN store' : store'[t].lastSeen >= store[s].lastSeen} = DOMAIN store'
    BY <2>5
  <2>7. Cardinality(DOMAIN store') = MaxEntries BY <1>1, <1>3, <2>1
  <2> QED BY <2>6, <2>7, SessionStallAssumption
<1> QED BY <1>1, <1>2, <1>3 DEF ForCause

\* `_evict` drops a session for its age, or because the cap is full of sessions that were
\* seen no earlier: never the one whose request is being served.
THEOREM EvictionHasCause == StallSpec => EvictedForCause
<1>1. StallIInv /\ [StallNext]_stallVars => [ForCause]_stallVars
  <2> SUFFICES ASSUME StallIInv, StallNext PROVE ForCause OBVIOUS
  <2>1. CASE \E s \in Sessions, surface \in {"messages", "chat"} : StallRequest(s, surface)
    BY <2>1, RequestEvictsForCause
  <2>2. CASE UNCHANGED <<store, stays>> BY <2>2 DEF ForCause
  <2> QED BY <2>1, <2>2 DEF StallNext, Converse, StartOver, Tick
<1>2. EvictedForCause <=> [][ForCause]_stallVars BY DEF EvictedForCause, ForCause
<1> QED BY <1>1, <1>2, StallInvariant, PTL DEF StallSpec

-----------------------------------------------------------------------------
(***************************************************************************)
(* CompletionCache.  What a lookup comes to is decided by the entries, and *)
(* what it should come to by all calls before: the invariant says that the *)
(* entries are in the order of the last use of their keys, that each is    *)
(* what the last `set` of its key made it, and that a key without an entry *)
(* had expired or was pushed out by as many others as there is room for.   *)
(***************************************************************************)

\* The calls on a key that found or stored something, those that stored, and the last of
\* each; and what else was used since.
TouchesOf(k) == {i \in DOMAIN uses : uses[i].key = k /\ uses[i].op # "miss"}
StoresOf(k) == {i \in TouchesOf(k) : uses[i].op = "set"}
LastTouch(k) == Max(TouchesOf(k))
LastStore(k) == Max(StoresOf(k))
CallsSince(k) == {j \in LastTouch(k)..Len(uses) : uses[j].op # "miss" /\ uses[j].key # k}
OthersSince(k) == {uses[i].key : i \in CallsSince(k)}

Holds(k) == \E i \in DOMAIN entries : entries[i].key = k

\* An entry is what the last store of its key made it.
IsLastStored(entry) ==
    /\ StoresOf(entry.key) # {} /\ LastStore(entry.key) = entry.value
    /\ uses[entry.value].value = entry.value /\ uses[entry.value].expires = entry.expires

\* A key that was stored and has no entry: its last store expired, or room was needed.
GoneForCause(k) ==
    \/ uses[LastStore(k)].expires <= instant
    \/ CacheSize <= Cardinality(OthersSince(k))

CacheIInv ==
    /\ CacheTypeOK
    /\ \A i \in DOMAIN entries : IsLastStored(entries[i])
    /\ \A i, j \in DOMAIN entries :
         i < j => LastTouch(entries[i].key) < LastTouch(entries[j].key)
    /\ \A k \in Keys : StoresOf(k) # {} /\ ~Holds(k) => GoneForCause(k)
    /\ LookupsMatchHistory

-----------------------------------------------------------------------------
(* CompletionCache: the entries *)

\* The key is looked up among the entries.
LEMMA EntryFound ==
  ASSUME CacheTypeOK, NEW k \in Keys
  PROVE  /\ EntryOf(k) = 0 <=> ~Holds(k)
         /\ EntryOf(k) # 0 => /\ EntryOf(k) \in DOMAIN entries
                              /\ entries[EntryOf(k)].key = k
<1> DEFINE Found == {i \in 1..Len(entries) : entries[i].key = k}
<1>1. EntryOf(k) = IF Found # {} THEN Min(Found) ELSE 0
  BY DEF EntryOf, SelectInSeq
<1>2. Len(entries) \in Nat /\ DOMAIN entries = 1..Len(entries) BY DEF CacheTypeOK
<1>3. CASE Found = {}
  BY <1>1, <1>2, <1>3 DEF Holds
<1>4. CASE Found # {}
  <2>1. Found \subseteq Int /\ \A x \in Found : 1 <= x BY <1>2
  <2>2. Min(Found) \in Found BY <1>4, <2>1, LeastIs
  <2>3. EntryOf(k) \in Found BY <1>1, <1>4, <2>2
  <2> QED BY <1>2, <2>3 DEF Holds
<1> QED BY <1>3, <1>4

\* The entries without a key, in their order, and an entry at their end.
LEMMA EntriesWithout ==
  ASSUME CacheTypeOK, NEW k \in Keys
  PROVE  LET rest == Without(k)
         IN  /\ rest \in Seq(Entries)
             /\ Len(rest) = IF Holds(k) THEN Len(entries) - 1 ELSE Len(entries)
             /\ \A i \in DOMAIN rest :
                  \E j \in DOMAIN entries : rest[i] = entries[j] /\ entries[j].key # k
             /\ \A j \in DOMAIN entries :
                  entries[j].key # k => \E i \in DOMAIN rest : rest[i] = entries[j]
             /\ \A i1, i2 \in DOMAIN rest : i1 < i2 =>
                  \E j1, j2 \in DOMAIN entries :
                    j1 < j2 /\ rest[i1] = entries[j1] /\ rest[i2] = entries[j2]
<1> DEFINE rest == Without(k)
<1>1. entries \in Seq(Entries) /\ Len(entries) \in Nat /\ DOMAIN entries = 1..Len(entries)
  BY DEF CacheTypeOK
<1>2. CASE ~Holds(k)
  <2>1. rest = entries BY <1>2, EntryFound DEF Without
  <2> QED BY <1>1, <1>2, <2>1 DEF Holds
<1>3. CASE Holds(k)
  <2> DEFINE at == EntryOf(k)
  <2>1. at \in 1..Len(entries) /\ entries[at].key = k BY <1>1, <1>3, EntryFound
  <2>2. rest = RemoveAt(entries, at) BY <2>1, <1>1 DEF Without
  <2> HIDE DEF at, rest
  <2>3. /\ rest \in Seq(Entries) /\ Len(rest) = Len(entries) - 1
        /\ \A i \in 1..(Len(entries) - 1) :
             rest[i] = IF i < at THEN entries[i] ELSE entries[i + 1]
    BY <1>1, <2>1, <2>2, Removed
  <2>4. DOMAIN rest = 1..(Len(entries) - 1) BY <2>3
  <2>5. \A i \in DOMAIN rest :
          \E j \in DOMAIN entries : j = (IF i < at THEN i ELSE i + 1)
    BY <1>1, <2>1, <2>4
  <2>6. \A j \in DOMAIN entries : entries[j].key = k => j = at
    BY <1>1, <2>1 DEF CacheTypeOK
  <2>7. \A i \in DOMAIN rest :
          \E j \in DOMAIN entries : rest[i] = entries[j] /\ entries[j].key # k
    <3> SUFFICES ASSUME NEW i \in DOMAIN rest
        PROVE \E j \in DOMAIN entries : rest[i] = entries[j] /\ entries[j].key # k
      OBVIOUS
    <3> DEFINE j == IF i < at THEN i ELSE i + 1
    <3>1. j \in DOMAIN entries /\ j # at BY <1>1, <2>1, <2>4
    <3>2. rest[i] = entries[j] BY <2>3, <2>4
    <3> QED BY <2>6, <3>1, <3>2
  <2>8. ASSUME NEW j \in DOMAIN entries, entries[j].key # k
        PROVE \E i \in DOMAIN rest : rest[i] = entries[j]
    <3>1. j # at BY <2>1, <2>8
    <3>2. CASE j < at
      <4>1. j \in DOMAIN rest /\ rest[j] = entries[j] BY <1>1, <2>1, <2>3, <2>4, <3>2
      <4> QED BY <4>1
    <3>3. CASE j > at
      <4>1. j - 1 \in DOMAIN rest /\ rest[j - 1] = entries[j - 1 + 1]
        BY <1>1, <2>1, <2>3, <2>4, <3>3
      <4>2. j - 1 + 1 = j BY <1>1
      <4> QED BY <4>1, <4>2
    <3> QED BY <1>1, <2>1, <3>1, <3>2, <3>3
  <2>9. ASSUME NEW i1 \in DOMAIN rest, NEW i2 \in DOMAIN rest, i1 < i2
        PROVE  \E j1, j2 \in DOMAIN entries :
                 j1 < j2 /\ rest[i1] = entries[j1] /\ rest[i2] = entries[j2]
    <3> DEFINE j1 == IF i1 < at THEN i1 ELSE i1 + 1
               j2 == IF i2 < at THEN i2 ELSE i2 + 1
    <3>1. j1 \in DOMAIN entries /\ j2 \in DOMAIN entries /\ j1 < j2
      BY <1>1, <2>1, <2>4, <2>9
    <3>2. rest[i1] = entries[j1] /\ rest[i2] = entries[j2] BY <2>3, <2>4
    <3> HIDE DEF j1, j2
    <3> QED BY <3>1, <3>2
  <2>10. Len(rest) = Len(entries) - 1 BY <2>3
  <2> QED BY <1>3, <2>3, <2>7, <2>8, <2>9, <2>10 DEF rest
<1> QED BY <1>2, <1>3

-----------------------------------------------------------------------------
(* CompletionCache: the calls so far *)

\* The last call on a key, and the last that stored something, are among the calls.
LEMMA CallsBefore ==
  ASSUME CacheTypeOK, NEW k \in Keys
  PROVE  /\ Len(uses) \in Nat /\ DOMAIN uses = 1..Len(uses)
         /\ TouchesOf(k) \subseteq 1..Len(uses) /\ StoresOf(k) \subseteq TouchesOf(k)
         /\ TouchesOf(k) # {} =>
              /\ LastTouch(k) \in TouchesOf(k)
              /\ \A i \in TouchesOf(k) : i <= LastTouch(k)
         /\ StoresOf(k) # {} =>
              /\ LastStore(k) \in StoresOf(k)
              /\ \A i \in StoresOf(k) : i <= LastStore(k)
<1>1. Len(uses) \in Nat /\ DOMAIN uses = 1..Len(uses) BY DEF CacheTypeOK
<1>2. TouchesOf(k) \subseteq 1..Len(uses) /\ StoresOf(k) \subseteq TouchesOf(k)
  BY <1>1 DEF TouchesOf, StoresOf
<1>3. ASSUME NEW S \in SUBSET TouchesOf(k), S # {}
      PROVE  Max(S) \in S /\ \A i \in S : i <= Max(S)
  <2>1. S \subseteq Int /\ \A i \in S : i <= Len(uses) BY <1>1, <1>2
  <2>2. Len(uses) \in Int BY <1>1
  <2> QED BY <1>3, <2>1, <2>2, GreatestOf
<1> QED BY <1>1, <1>2, <1>3 DEF LastTouch, LastStore

\* One call more.
LEMMA CallAdded ==
  ASSUME CacheTypeOK, NEW op \in {"set", "hit", "miss"}, NEW key \in Keys,
         NEW value \in 0..MaxUses, NEW expires \in Int,
         Used(op, key, value, expires)
  PROVE  LET n == Len(uses) + 1
             use == [op |-> op, key |-> key, value |-> value, at |-> instant,
                      expires |-> expires]
         IN  /\ uses' \in Seq(Uses) /\ Len(uses') = n /\ n <= MaxUses /\ n \in Nat
             /\ DOMAIN uses' = 1..n
             /\ uses'[n] = use
             /\ \A i \in 1..Len(uses) : uses'[i] = uses[i]
             /\ instant' = instant
             /\ \A k \in Keys :
                  /\ TouchesOf(k)' = IF k = key /\ op # "miss" THEN TouchesOf(k) \cup {n}
                                     ELSE TouchesOf(k)
                  /\ StoresOf(k)' = IF k = key /\ op = "set" THEN StoresOf(k) \cup {n}
                                    ELSE StoresOf(k)
<1> DEFINE n == Len(uses) + 1
           use == [op |-> op, key |-> key, value |-> value, at |-> instant,
                    expires |-> expires]
<1>1. /\ Len(uses) < MaxUses /\ uses' = Append(uses, use) /\ instant' = instant
  BY DEF Used
<1>2. use \in Uses BY DEF Uses, CacheTypeOK
<1>3. uses \in Seq(Uses) /\ Len(uses) \in Nat /\ DOMAIN uses = 1..Len(uses)
  BY DEF CacheTypeOK
<1>4. /\ uses' \in Seq(Uses) /\ Len(uses') = n
      /\ uses'[n] = use /\ \A i \in 1..Len(uses) : uses'[i] = uses[i]
  BY <1>1, <1>2, <1>3, AppendProperties
<1>5. n <= MaxUses /\ n \in Nat BY <1>1, <1>3, CacheAssumption
<1>6. DOMAIN uses' = 1..n BY <1>4
<1>7. use.key = key /\ use.op = op OBVIOUS
<1> HIDE DEF use
<1>8. 1..n = 1..Len(uses) \cup {n} /\ n \notin 1..Len(uses) BY <1>3
<1> HIDE DEF n
<1>9. ASSUME NEW k \in Keys
      PROVE  /\ TouchesOf(k)' = IF k = key /\ op # "miss" THEN TouchesOf(k) \cup {n}
                                ELSE TouchesOf(k)
             /\ StoresOf(k)' = IF k = key /\ op = "set" THEN StoresOf(k) \cup {n}
                               ELSE StoresOf(k)
  <2>1. TouchesOf(k)' = IF k = key /\ op # "miss" THEN TouchesOf(k) \cup {n}
                        ELSE TouchesOf(k)
    BY <1>3, <1>4, <1>6, <1>7, <1>8 DEF TouchesOf
  <2>2. TouchesOf(k) \subseteq 1..Len(uses) BY <1>3 DEF TouchesOf
  <2>3. StoresOf(k)' = {i \in TouchesOf(k)' : uses'[i].op = "set"} BY DEF StoresOf
  <2> QED BY <1>4, <1>7, <1>8, <2>1, <2>2, <2>3 DEF StoresOf
<1> QED BY <1>1, <1>4, <1>5, <1>6, <1>9 DEF n, use

\* The other keys used since are finitely many.
LEMMA OthersFinite ==
  ASSUME CacheTypeOK, NEW k \in Keys, TouchesOf(k) # {}
  PROVE  IsFiniteSet(OthersSince(k)) /\ Cardinality(OthersSince(k)) \in Nat
<1>1. LastTouch(k) \in Int /\ Len(uses) \in Int BY CallsBefore
<1>2. CallsSince(k) \subseteq LastTouch(k)..Len(uses) BY DEF CallsSince
<1>3. IsFiniteSet({uses[i].key : i \in CallsSince(k)}) BY <1>1, <1>2, KeysAreFinite, Zenon
<1> QED BY <1>3, FS_CardinalityType DEF OthersSince

\* For a key that is not touched, only more keys were used since.
LEMMA OthersGrow ==
  ASSUME CacheTypeOK, CacheTypeOK', NEW k \in Keys, TouchesOf(k) # {},
         TouchesOf(k)' = TouchesOf(k), Len(uses) <= Len(uses'),
         \A i \in 1..Len(uses) : uses'[i] = uses[i]
  PROVE  Cardinality(OthersSince(k)) <= Cardinality(OthersSince(k)')
<1>1. LastTouch(k)' = LastTouch(k) BY DEF LastTouch
<1>2. LastTouch(k) \in 1..Len(uses) BY CallsBefore
<1>3. Len(uses) \in Nat /\ Len(uses') \in Nat BY DEF CacheTypeOK
<1>4. CallsSince(k) \subseteq CallsSince(k)'
  BY <1>1, <1>2, <1>3 DEF CallsSince
<1>5. CallsSince(k) \subseteq 1..Len(uses) BY <1>2, <1>3 DEF CallsSince
<1>6. OthersSince(k) \subseteq OthersSince(k)' BY <1>4, <1>5 DEF OthersSince
<1>7. IsFiniteSet(OthersSince(k)')
  <2>1. CallsSince(k)' \subseteq LastTouch(k)..Len(uses') BY <1>1 DEF CallsSince
  <2>2. OthersSince(k)' = {uses'[i].key : i \in CallsSince(k)'} BY DEF OthersSince
  <2>3. LastTouch(k) \in Int /\ Len(uses') \in Int BY <1>2, <1>3
  <2>4. IsFiniteSet({uses'[i].key : i \in CallsSince(k)'})
    BY <2>1, <2>3, KeysAreFinite, Zenon
  <2> QED BY <2>2, <2>4
<1> QED BY <1>6, <1>7, FS_Subset

-----------------------------------------------------------------------------
(* CompletionCache: what a call came to, against the calls before *)

\* A call that comes now with this outcome is what LookupsMatchHistory wants it to be.
Fits(op, key, value) ==
    /\ op = "hit" => /\ StoresOf(key) # {}
                     /\ value = uses[LastStore(key)].value
                     /\ instant < uses[LastStore(key)].expires
    /\ op = "miss" => ~ /\ StoresOf(key) # {}
                        /\ instant < uses[LastStore(key)].expires
                        /\ CacheSize > Cardinality(OthersSince(key))

LookupMatches(n) ==
    /\ uses[n].op = "hit" =>
         /\ Stores(n) # {}
         /\ uses[n].value = uses[Max(Stores(n))].value
         /\ uses[n].at < uses[Max(Stores(n))].expires
    /\ uses[n].op = "miss" => ~DueHit(n)

\* What was to be seen at a call does not change with the calls that follow it.
LEMMA EarlierLookup ==
  ASSUME CacheTypeOK, CacheTypeOK', Len(uses) <= Len(uses'),
         \A i \in 1..Len(uses) : uses'[i] = uses[i],
         NEW m \in 1..Len(uses), LookupMatches(m)
  PROVE  LookupMatches(m)'
<1>1. Len(uses) \in Nat /\ m \in Nat /\ uses'[m] = uses[m] BY DEF CacheTypeOK
<1>2. \A i \in 1..(m - 1) : i \in 1..Len(uses) /\ uses'[i] = uses[i] BY <1>1
<1>3. Touches(m)' = Touches(m) BY <1>1, <1>2 DEF Touches
<1>4. Stores(m)' = Stores(m) BY <1>2, <1>3 DEF Stores, Touches
<1>5. ASSUME Stores(m) # {}
      PROVE  /\ Max(Stores(m)) \in 1..(m - 1) /\ Max(Touches(m)) \in 1..(m - 1)
  <2>1. Touches(m) \subseteq 1..(m - 1) /\ Stores(m) \subseteq Touches(m)
    BY DEF Touches, Stores
  <2>2. ASSUME NEW S \in SUBSET (1..(m - 1)), S # {} PROVE Max(S) \in S
    <3>1. m - 1 \in Int BY <1>1
    <3>2. \A i \in S : i \in 1..(m - 1) OBVIOUS
    <3>3. \A i \in S : i \in Int /\ i <= m - 1 BY <3>1, <3>2
    <3> QED BY <2>2, <3>1, <3>3, GreatestOf
  <2> QED BY <1>5, <2>1, <2>2
<1>6. CASE Stores(m) = {}
  BY <1>1, <1>4, <1>6 DEF LookupMatches, DueHit
<1>7. CASE Stores(m) # {}
  <2>1. uses'[Max(Stores(m))] = uses[Max(Stores(m))] BY <1>2, <1>5, <1>7
  <2> DEFINE since == {j \in Max(Touches(m))..(m - 1) :
                         uses[j].op # "miss" /\ uses[j].key # uses[m].key}
             sinceNow == {j \in Max(Touches(m))..(m - 1) :
                            uses'[j].op # "miss" /\ uses'[j].key # uses'[m].key}
  <2>2. Max(Touches(m))..(m - 1) \subseteq 1..(m - 1) BY <1>1, <1>5, <1>7
  <2>3. sinceNow = since /\ since \subseteq 1..(m - 1) BY <1>1, <1>2, <2>2
  <2>4. {uses'[i].key : i \in sinceNow} = {uses[i].key : i \in since} BY <1>2, <2>3
  <2> HIDE DEF since, sinceNow
  <2>5. DueHit(m) <=> /\ Stores(m) # {} /\ uses[m].at < uses[Max(Stores(m))].expires
                      /\ CacheSize > Cardinality({uses[i].key : i \in since})
    BY DEF DueHit, since
  <2>6. DueHit(m)' <=> /\ Stores(m)' # {} /\ uses'[m].at < uses'[Max(Stores(m)')].expires
                       /\ CacheSize > Cardinality({uses'[i].key : i \in sinceNow})
    BY <1>3 DEF DueHit, sinceNow
  <2>7. DueHit(m)' <=> DueHit(m) BY <1>1, <1>4, <2>1, <2>4, <2>5, <2>6
  <2> QED BY <1>1, <1>4, <2>1, <2>7 DEF LookupMatches
<1> QED BY <1>6, <1>7

\* When no call is made, the lookups came to what they did.
LEMMA SameLookups ==
  ASSUME CacheTypeOK, CacheTypeOK', LookupsMatchHistory, uses' = uses
  PROVE  LookupsMatchHistory'
<1>1. DOMAIN uses = 1..Len(uses) /\ Len(uses) \in Nat BY DEF CacheTypeOK
<1>2. ASSUME NEW m \in 1..Len(uses) PROVE LookupMatches(m)'
  <2>1. LookupMatches(m) BY <1>1 DEF LookupsMatchHistory, LookupMatches
  <2>2. Len(uses) <= Len(uses') /\ \A i \in 1..Len(uses) : uses'[i] = uses[i] BY <1>1
  <2> QED BY <2>1, <2>2, EarlierLookup
<1>3. \A m \in DOMAIN uses' : LookupMatches(m)' BY <1>1, <1>2
<1> QED BY <1>3 DEF LookupsMatchHistory, LookupMatches

\* A call more leaves those before it as they were, and only it is to be looked at.
LEMMA LookupAdded ==
  ASSUME CacheTypeOK, CacheTypeOK', LookupsMatchHistory,
         NEW op \in {"set", "hit", "miss"}, NEW key \in Keys,
         NEW value \in 0..MaxUses, NEW expires \in Int,
         Used(op, key, value, expires), Fits(op, key, value)
  PROVE  LookupsMatchHistory'
<1>0. PICK n \in Nat : n = Len(uses) + 1 BY DEF CacheTypeOK
<1>1. /\ Len(uses) \in Nat /\ Len(uses') = n /\ n = Len(uses) + 1 /\ DOMAIN uses' = 1..n
      /\ \A i \in 1..Len(uses) : uses'[i] = uses[i]
      /\ uses'[n] = [op |-> op, key |-> key, value |-> value, at |-> instant,
                     expires |-> expires]
      /\ DOMAIN uses = 1..Len(uses)
  BY <1>0, CallAdded DEF CacheTypeOK
<1>2. /\ uses'[n].op = op /\ uses'[n].key = key /\ uses'[n].value = value
      /\ uses'[n].at = instant
  BY <1>1
<1>3. \A m \in 1..Len(uses) : LookupMatches(m)'
  <2> SUFFICES ASSUME NEW m \in 1..Len(uses) PROVE LookupMatches(m)' OBVIOUS
  <2>1. LookupMatches(m) BY <1>1 DEF LookupsMatchHistory, LookupMatches
  <2>2. Len(uses) <= Len(uses') BY <1>1
  <2> QED BY <1>1, <2>1, <2>2, EarlierLookup
<1>4. LookupMatches(n)'
  <2>1. 1..(n - 1) = 1..Len(uses) /\ n - 1 = Len(uses) BY <1>1
  <2>2. Touches(n)' = TouchesOf(key) /\ Stores(n)' = StoresOf(key)
    BY <1>1, <1>2, <2>1 DEF Touches, Stores, TouchesOf, StoresOf
  <2>3. CASE StoresOf(key) = {}
    BY <1>2, <2>2, <2>3 DEF LookupMatches, DueHit, Fits
  <2>4. CASE StoresOf(key) # {}
    <3>1. LastStore(key) \in 1..Len(uses) /\ LastTouch(key) \in 1..Len(uses)
      BY <2>4, CallsBefore
    <3>2. Max(Stores(n)') = LastStore(key) /\ Max(Touches(n)') = LastTouch(key)
      BY <2>2 DEF LastStore, LastTouch
    <3>3. uses'[LastStore(key)] = uses[LastStore(key)] BY <1>1, <3>1
    <3> DEFINE since == {j \in LastTouch(key)..Len(uses) :
                           uses'[j].op # "miss" /\ uses'[j].key # key}
    <3>4. since = CallsSince(key) /\ since \subseteq 1..Len(uses)
      BY <1>1, <3>1 DEF CallsSince
    <3>5. {uses'[i].key : i \in since} = OthersSince(key)
      BY <1>1, <3>4 DEF OthersSince
    <3> HIDE DEF since
    <3>6. DueHit(n)' <=> /\ instant < uses[LastStore(key)].expires
                         /\ CacheSize > Cardinality({uses'[i].key : i \in since})
      BY <1>2, <2>1, <2>2, <2>4, <3>2, <3>3 DEF DueHit, since
    <3> QED BY <1>2, <2>2, <2>4, <3>2, <3>3, <3>5, <3>6 DEF LookupMatches, Fits
  <2> QED BY <2>3, <2>4
<1>5. \A m \in DOMAIN uses' : LookupMatches(m)' BY <1>1, <1>3, <1>4
<1> QED BY <1>5 DEF LookupsMatchHistory, LookupMatches

-----------------------------------------------------------------------------
(* CompletionCache: one step *)

\* What the types say.
LEMMA TypeFacts ==
  ASSUME CacheTypeOK
  PROVE  /\ entries \in Seq(Entries) /\ Len(entries) \in Nat
         /\ DOMAIN entries = 1..Len(entries) /\ Len(entries) <= CacheSize
         /\ \A i \in DOMAIN entries :
              /\ entries[i] \in Entries /\ entries[i].key \in Keys
              /\ entries[i].value \in 1..MaxUses /\ entries[i].expires \in Int
         /\ uses \in Seq(Uses) /\ Len(uses) \in Nat /\ DOMAIN uses = 1..Len(uses)
         /\ \A i \in 1..Len(uses) : uses[i] \in Uses /\ uses[i].expires \in Int
         /\ instant \in Nat /\ CacheSize \in Nat /\ CacheSize > 0
<1>1. entries \in Seq(Entries) /\ uses \in Seq(Uses) BY DEF CacheTypeOK
<1>2. \A i \in DOMAIN entries : entries[i] \in Entries BY <1>1
<1>3. \A i \in 1..Len(uses) : uses[i] \in Uses BY <1>1
<1>4. \A i \in DOMAIN entries :
        entries[i].key \in Keys /\ entries[i].value \in 1..MaxUses /\ entries[i].expires \in Int
  BY <1>2 DEF Entries
<1>5. \A i \in 1..Len(uses) : uses[i].expires \in Int BY <1>3 DEF Uses
<1>6. /\ Len(entries) \in Nat /\ DOMAIN entries = 1..Len(entries)
      /\ Len(uses) \in Nat /\ DOMAIN uses = 1..Len(uses)
  BY <1>1
<1>7. /\ Len(entries) <= CacheSize
      /\ instant \in Nat /\ CacheSize \in Nat /\ CacheSize > 0
  BY CacheAssumption DEF CacheTypeOK
<1> QED BY <1>1, <1>2, <1>3, <1>4, <1>5, <1>6, <1>7

\* A key that a call does not touch is seen as before.
LEMMA Untouched ==
  ASSUME CacheTypeOK, NEW op \in {"set", "hit", "miss"}, NEW key \in Keys,
         NEW value \in 0..MaxUses, NEW expires \in Int,
         Used(op, key, value, expires),
         NEW k \in Keys, k # key \/ op = "miss"
  PROVE  /\ TouchesOf(k)' = TouchesOf(k) /\ LastTouch(k)' = LastTouch(k)
         /\ StoresOf(k)' = StoresOf(k) /\ LastStore(k)' = LastStore(k)
         /\ StoresOf(k) # {} => uses'[LastStore(k)] = uses[LastStore(k)]
<1>1. TouchesOf(k)' = TouchesOf(k) /\ StoresOf(k)' = StoresOf(k)
  <2>1. /\ TouchesOf(k)' = IF k = key /\ op # "miss" THEN TouchesOf(k) \cup {Len(uses) + 1}
                           ELSE TouchesOf(k)
        /\ StoresOf(k)' = IF k = key /\ op = "set" THEN StoresOf(k) \cup {Len(uses) + 1}
                          ELSE StoresOf(k)
    BY CallAdded
  <2> QED BY <2>1
<1>2. LastTouch(k)' = LastTouch(k) /\ LastStore(k)' = LastStore(k)
  BY <1>1 DEF LastTouch, LastStore
<1>3. StoresOf(k) # {} => LastStore(k) \in 1..Len(uses) BY CallsBefore
<1>4. \A i \in 1..Len(uses) : uses'[i] = uses[i] BY CallAdded
<1> QED BY <1>1, <1>2, <1>3, <1>4

\* A key that was stored and has gone stays so, until it is stored again.
LEMMA StaysGone ==
  ASSUME CacheTypeOK, CacheTypeOK', NEW op \in {"set", "hit", "miss"}, NEW key \in Keys,
         NEW value \in 0..MaxUses, NEW expires \in Int,
         Used(op, key, value, expires),
         NEW k \in Keys, k # key \/ op = "miss", StoresOf(k) # {}, GoneForCause(k)
  PROVE  GoneForCause(k)'
<1>1. /\ TouchesOf(k)' = TouchesOf(k) /\ LastStore(k)' = LastStore(k)
      /\ uses'[LastStore(k)] = uses[LastStore(k)]
  BY Untouched
<1>2. instant' = instant /\ Len(uses') = Len(uses) + 1 /\ Len(uses) \in Nat
      /\ \A i \in 1..Len(uses) : uses'[i] = uses[i]
  BY CallAdded, TypeFacts
<1>3. TouchesOf(k) # {} BY CallsBefore
<1>4. Len(uses) <= Len(uses') BY <1>2
<1>5. Cardinality(OthersSince(k)) <= Cardinality(OthersSince(k)')
  BY <1>1, <1>2, <1>3, <1>4, OthersGrow
<1>6. CASE uses[LastStore(k)].expires <= instant BY <1>1, <1>2, <1>6 DEF GoneForCause
<1>7. CASE CacheSize <= Cardinality(OthersSince(k))
  <2>1. /\ Cardinality(OthersSince(k)) \in Nat /\ Cardinality(OthersSince(k)') \in Nat
    <3>1. LastTouch(k) \in 1..Len(uses) /\ LastTouch(k)' = LastTouch(k)
      BY <1>1, <1>3, CallsBefore DEF LastTouch
    <3>2. CallsSince(k) \subseteq LastTouch(k)..Len(uses) BY DEF CallsSince
    <3>3. CallsSince(k)' \subseteq LastTouch(k)..Len(uses') BY <3>1 DEF CallsSince
    <3>4. LastTouch(k) \in Int /\ Len(uses) \in Int /\ Len(uses') \in Int BY <1>2, <3>1
    <3>5. IsFiniteSet({uses[i].key : i \in CallsSince(k)})
      BY <3>2, <3>4, KeysAreFinite, Zenon
    <3>6. IsFiniteSet({uses'[i].key : i \in CallsSince(k)'})
      BY <3>3, <3>4, KeysAreFinite, Zenon
    <3> QED BY <3>5, <3>6, FS_CardinalityType DEF OthersSince
  <2> QED BY <1>5, <1>7, <2>1, TypeFacts DEF GoneForCause
<1> QED BY <1>6, <1>7 DEF GoneForCause

\* Of an entry and a key, after the step.
StoredNow(entry) == IsLastStored(entry)'
TouchedNow(k) == LastTouch(k)'

\* What a list holds of the entries: all, with one key's entry at its end, in the order
\* in which their keys were last touched.
ListFollows(list, entry) ==
    /\ list \in Seq(Entries)
    /\ Len(list) = IF Holds(entry.key) THEN Len(entries) ELSE Len(entries) + 1
    /\ list[Len(list)] = entry
    /\ \A i \in DOMAIN list : StoredNow(list[i])
    /\ \A i, j \in DOMAIN list : i < j => TouchedNow(list[i].key) < TouchedNow(list[j].key)
    /\ \A k \in Keys : k = entry.key \/ Holds(k) => \E i \in DOMAIN list : list[i].key = k

\* The entry of a call that touched its key comes last; the others keep their order.
LEMMA MovedToEnd ==
  ASSUME CacheIInv, NEW op \in {"set", "hit"}, NEW key \in Keys,
         NEW value \in 0..MaxUses, NEW expires \in Int,
         Used(op, key, value, expires),
         NEW entry \in Entries, entry.key = key, StoredNow(entry),
         NEW list, list = Moved(key, entry)
  PROVE  ListFollows(list, entry)
<1>0. PICK n \in Nat, rest \in {Without(key)} : n = Len(uses) + 1 /\ rest = Without(key)
  BY TypeFacts DEF CacheIInv
<1>1. /\ rest \in Seq(Entries)
      /\ Len(rest) = IF Holds(key) THEN Len(entries) - 1 ELSE Len(entries)
      /\ \A i \in DOMAIN rest :
           \E j \in DOMAIN entries : rest[i] = entries[j] /\ entries[j].key # key
      /\ \A j \in DOMAIN entries :
           entries[j].key # key => \E i \in DOMAIN rest : rest[i] = entries[j]
      /\ \A i1, i2 \in DOMAIN rest : i1 < i2 =>
           \E j1, j2 \in DOMAIN entries :
             j1 < j2 /\ rest[i1] = entries[j1] /\ rest[i2] = entries[j2]
  BY <1>0, EntriesWithout DEF CacheIInv
<1>2. list = Append(rest, entry) BY <1>0 DEF Moved
<1>3. Len(rest) \in Nat /\ DOMAIN rest = 1..Len(rest) BY <1>1
<1>4. /\ list \in Seq(Entries) /\ Len(list) = Len(rest) + 1 /\ list[Len(rest) + 1] = entry
      /\ \A i \in 1..Len(rest) : list[i] = rest[i]
      /\ DOMAIN list = 1..(Len(rest) + 1)
  BY <1>1, <1>2, AppendProperties
<1>5. Len(list) = IF Holds(key) THEN Len(entries) ELSE Len(entries) + 1
  <2>1. Len(entries) \in Nat BY TypeFacts DEF CacheIInv
  <2> QED BY <1>1, <1>3, <1>4, <2>1
<1>6. \A i \in 1..Len(rest) :
        \E j \in DOMAIN entries : list[i] = entries[j] /\ entries[j].key # key
  <2> SUFFICES ASSUME NEW i \in 1..Len(rest)
      PROVE \E j \in DOMAIN entries : list[i] = entries[j] /\ entries[j].key # key
    OBVIOUS
  <2>1. list[i] = rest[i] /\ i \in DOMAIN rest BY <1>3, <1>4
  <2> QED BY <1>1, <2>1
<1>7. ASSUME NEW j \in DOMAIN entries, NEW e \in Entries, e = entries[j], e.key # key
      PROVE  /\ IsLastStored(e)'
             /\ LastTouch(e.key)' = LastTouch(e.key)
             /\ LastTouch(e.key)' \in 1..Len(uses)
  <2>0. PICK k \in Keys, v \in Int, x \in Int : e.key = k /\ e.value = v /\ e.expires = x
    BY <1>7, TypeFacts DEF CacheIInv
  <2>1. StoresOf(k) # {} /\ LastStore(k) = v /\ uses[v].value = v /\ uses[v].expires = x
    BY <1>7, <2>0 DEF CacheIInv, IsLastStored
  <2>2. /\ LastTouch(k)' = LastTouch(k)
        /\ StoresOf(k)' = StoresOf(k) /\ LastStore(k)' = LastStore(k)
        /\ uses'[LastStore(k)] = uses[LastStore(k)]
    BY <1>7, <2>0, <2>1, Untouched DEF CacheIInv
  <2>3. LastTouch(k) \in 1..Len(uses) BY <2>1, CallsBefore DEF CacheIInv
  <2>4. IsLastStored(e)' BY <2>0, <2>1, <2>2 DEF IsLastStored
  <2> QED BY <2>0, <2>2, <2>3, <2>4
<1>8. \A i \in 1..Len(rest) : list[i] \in Entries BY <1>4
<1>9. \A i \in DOMAIN list : IsLastStored(list[i])'
  <2> SUFFICES ASSUME NEW i \in DOMAIN list PROVE IsLastStored(list[i])' OBVIOUS
  <2>1. CASE i = Len(rest) + 1
    <3>1. list[i] = entry BY <1>4, <2>1
    <3> QED BY <3>1 DEF StoredNow
  <2>2. CASE i \in 1..Len(rest) BY <1>6, <1>7, <1>8, <2>2
  <2> QED BY <1>3, <1>4, <2>1, <2>2
<1>10. LastTouch(key)' = n
  <2>1. TouchesOf(key)' = TouchesOf(key) \cup {Len(uses) + 1}
    <3>1. CacheTypeOK /\ op \in {"set", "hit", "miss"} /\ op # "miss" BY DEF CacheIInv
    <3> QED BY <3>1, CallAdded
  <2>2. TouchesOf(key) \subseteq 1..Len(uses) /\ Len(uses) \in Nat
    BY CallsBefore DEF CacheIInv
  <2>3. TouchesOf(key)' \subseteq Int /\ n \in TouchesOf(key)'
        /\ \A x \in TouchesOf(key)' : x <= n
    BY <1>0, <2>1, <2>2
  <2> DEFINE now == TouchesOf(key)'
  <2>4. Max(now) \in now /\ n <= Max(now)
    <3> HIDE DEF now
    <3>1. now \subseteq Int /\ n \in now /\ \A x \in now : x <= n BY <2>3 DEF now
    <3> QED BY <3>1, GreatestOf
  <2>5. Max(now) = n BY <2>3, <2>4
  <2> QED BY <2>5 DEF LastTouch
<1>11. ASSUME NEW i \in DOMAIN list, NEW j \in DOMAIN list, i < j
       PROVE  LastTouch(list[i].key)' < LastTouch(list[j].key)'
  <2>1. i \in 1..Len(rest) BY <1>3, <1>4, <1>11
  <2>2. PICK d \in Entries : d = list[i] /\ \E p \in DOMAIN entries : d = entries[p] /\ d.key # key
    BY <1>6, <1>8, <2>1
  <2>3. LastTouch(d.key)' = LastTouch(d.key) /\ LastTouch(d.key)' \in 1..Len(uses)
    BY <1>7, <2>2
  <2>4. CASE j = Len(rest) + 1
    <3>1. list[j] = entry BY <1>4, <2>4
    <3>2. LastTouch(entry.key)' = n BY <1>10
    <3>3. LastTouch(d.key)' < n
      <4>1. Len(uses) \in Nat BY TypeFacts DEF CacheIInv
      <4> QED BY <1>0, <2>3, <4>1
    <3> QED BY <2>2, <3>1, <3>2, <3>3
  <2>5. CASE j \in 1..Len(rest)
    <3>1. PICK p \in DOMAIN entries, q \in DOMAIN entries :
            p < q /\ rest[i] = entries[p] /\ rest[j] = entries[q]
      BY <1>1, <1>3, <1>11, <2>1, <2>5
    <3>2. PICK e \in Entries : e = list[j] /\ e = entries[q] /\ e.key # key
      <4>1. list[j] = rest[j] /\ list[j] \in Entries BY <1>4, <1>8, <2>5
      <4>2. PICK m \in DOMAIN entries : list[j] = entries[m] /\ entries[m].key # key
        BY <1>6, <2>5
      <4> QED BY <3>1, <4>1, <4>2
    <3>3. LastTouch(e.key)' = LastTouch(e.key) BY <1>7, <3>2
    <3>4. d = entries[p] BY <1>4, <2>1, <2>2, <3>1
    <3>5. LastTouch(d.key) < LastTouch(e.key)
      BY <3>1, <3>2, <3>4 DEF CacheIInv
    <3> QED BY <2>2, <2>3, <3>2, <3>3, <3>5
  <2> QED BY <1>3, <1>4, <2>4, <2>5
<1>12. ASSUME NEW k \in Keys, k = key \/ Holds(k)
       PROVE  \E i \in DOMAIN list : list[i].key = k
  <2>1. CASE k = key
    <3>1. Len(rest) + 1 \in DOMAIN list BY <1>3, <1>4
    <3> QED BY <1>4, <2>1, <3>1
  <2>2. CASE k # key
    <3>1. PICK j \in DOMAIN entries : entries[j].key = k BY <1>12, <2>2 DEF Holds
    <3>2. PICK i \in DOMAIN rest : rest[i] = entries[j] BY <1>1, <2>2, <3>1
    <3>3. i \in DOMAIN list /\ list[i] = rest[i] BY <1>3, <1>4
    <3> QED BY <3>1, <3>2, <3>3
  <2> QED BY <2>1, <2>2
<1>13. list[Len(list)] = entry BY <1>4
<1>14. /\ \A i \in DOMAIN list : StoredNow(list[i])
       /\ \A i, j \in DOMAIN list : i < j => TouchedNow(list[i].key) < TouchedNow(list[j].key)
  BY <1>9, <1>11 DEF StoredNow, TouchedNow
<1> QED BY <1>4, <1>5, <1>12, <1>13, <1>14 DEF ListFollows

KeysAfterFirst(list) == {list[i].key : i \in 2..Len(list)}

\* There are as many entries as keys that have one.
LEMMA KeysCounted ==
  ASSUME NEW list \in Seq(Entries), Len(list) >= 2,
         \A i, j \in DOMAIN list : list[i].key = list[j].key => i = j
  PROVE  Cardinality(KeysAfterFirst(list)) = Len(list) - 1
<1> DEFINE n == Len(list)
           key == [i \in 2..n |-> list[i].key]
<1>1. n \in Int /\ 2 <= n /\ 2..n \subseteq DOMAIN list OBVIOUS
<1>2. IsFiniteSet(2..n) /\ Cardinality(2..n) = n - 1
  <2>1. \A b \in Int : 2 <= b => IsFiniteSet(2..b) /\ Cardinality(2..b) = b - 1
    BY FS_Interval
  <2> QED BY <1>1, <2>1, Zenon
<1>3. key \in Surjection(2..n, KeysAfterFirst(list)) BY DEF Surjection, KeysAfterFirst
<1>4. key \in Injection(2..n, KeysAfterFirst(list))
  BY <1>1, <1>3 DEF Injection, IsInjective, Surjection
<1> HIDE DEF key, n
<1>5. Cardinality(KeysAfterFirst(list)) = n - 1 BY <1>2, <1>3, <1>4, FS_Surjection
<1> QED BY <1>5 DEF n

\* What a touch keeps of the entries: all of them, or all but the one that has not been
\* used for the longest time.
LEMMA TouchKeeps ==
  ASSUME CacheIInv, NEW op \in {"set", "hit"}, NEW key \in Keys,
         NEW value \in 0..MaxUses, NEW expires \in Int,
         Used(op, key, value, expires), Fits(op, key, value),
         NEW entry \in Entries, entry.key = key,
         NEW list, ListFollows(list, entry),
         NEW from \in {1, 2}, Len(list) + 1 <= CacheSize + from,
         from = 2 => Len(list) = CacheSize + 1,
         entries' = SubSeq(list, from, Len(list))
  PROVE  CacheIInv'
<1>1. /\ list \in Seq(Entries)
      /\ Len(list) = IF Holds(key) THEN Len(entries) ELSE Len(entries) + 1
      /\ list[Len(list)] = entry
      /\ \A i \in DOMAIN list : IsLastStored(list[i])'
      /\ \A i, j \in DOMAIN list :
           i < j => LastTouch(list[i].key)' < LastTouch(list[j].key)'
      /\ \A k \in Keys : k = key \/ Holds(k) => \E i \in DOMAIN list : list[i].key = k
  BY DEF ListFollows, StoredNow, TouchedNow
<1>2. /\ op \in {"set", "hit", "miss"} /\ op # "miss" /\ CacheTypeOK
      /\ CacheSize \in Nat /\ CacheSize > 0 /\ Len(entries) \in Nat
  BY TypeFacts DEF CacheIInv
<1>3. /\ uses' \in Seq(Uses) /\ Len(uses') = Len(uses) + 1 /\ Len(uses') <= MaxUses
      /\ instant' = instant
  BY <1>2, CallAdded
<1>4. Len(list) \in Nat /\ DOMAIN list = 1..Len(list) /\ Len(list) >= 1
  <2>1. Len(list) \in Nat /\ DOMAIN list = 1..Len(list) BY <1>1
  <2>2. \E i \in DOMAIN list : list[i].key = key BY <1>1
  <2> QED BY <2>1, <2>2
<1>5. /\ entries' \in Seq(Entries) /\ Len(entries') = Len(list) - from + 1
      /\ \A i \in 1..(Len(list) - from + 1) : entries'[i] = list[i + from - 1]
  <2>1. /\ from \in 1..(Len(list) + 1) /\ Len(list) \in from-1..Len(list)
    BY <1>4
  <2>2. \A i \in from..Len(list) : list[i] \in Entries BY <1>1, <1>4
  <2>3. /\ SubSeq(list, from, Len(list)) \in Seq(Entries)
        /\ Len(SubSeq(list, from, Len(list))) =
             IF from <= Len(list) THEN Len(list) - from + 1 ELSE 0
        /\ \A i \in 1..(Len(list) - from + 1) :
             SubSeq(list, from, Len(list))[i] = list[from + i - 1]
    BY <1>1, <1>4, <2>1, SubSeqProperties
  <2>4. (IF from <= Len(list) THEN Len(list) - from + 1 ELSE 0) = Len(list) - from + 1
    BY <1>4
  <2>5. \A i \in 1..(Len(list) - from + 1) : from + i - 1 = i + from - 1 OBVIOUS
  <2> QED BY <2>3, <2>4, <2>5
<1>6. DOMAIN entries' = 1..(Len(list) - from + 1) BY <1>4, <1>5
<1>7. \A i \in DOMAIN entries' :
        /\ i + from - 1 \in DOMAIN list /\ entries'[i] = list[i + from - 1]
  BY <1>4, <1>5, <1>6
<1>8. \A i \in DOMAIN list : i >= from =>
        i - from + 1 \in DOMAIN entries' /\ entries'[i - from + 1] = list[i]
  <2> SUFFICES ASSUME NEW i \in DOMAIN list, i >= from
      PROVE i - from + 1 \in DOMAIN entries' /\ entries'[i - from + 1] = list[i]
    OBVIOUS
  <2>1. i - from + 1 \in DOMAIN entries' BY <1>4, <1>6
  <2>2. (i - from + 1) + from - 1 = i BY <1>4
  <2> QED BY <1>7, <2>1, <2>2
<1>9. ASSUME NEW i \in DOMAIN list, NEW k \in Keys, list[i].key = k
       PROVE  /\ LastTouch(k)' \in 1..Len(uses')
              /\ uses'[LastTouch(k)'].key = k /\ uses'[LastTouch(k)'].op # "miss"
  <2>1. PICK e \in Entries : e = list[i] BY <1>1
  <2>2. IsLastStored(e)' /\ e.key = k BY <1>1, <1>9, <2>1
  <2>3. TouchesOf(k)' # {} /\ TouchesOf(k)' \subseteq 1..Len(uses')
    BY <1>3, <2>2 DEF IsLastStored, StoresOf, TouchesOf
  <2> DEFINE now == TouchesOf(k)'
  <2>4. Max(now) \in now
    <3> HIDE DEF now
    <3>1. now # {} /\ now \subseteq 1..Len(uses') BY <2>3 DEF now
    <3>2. now \subseteq Int /\ Len(uses') \in Int /\ \A x \in now : x <= Len(uses')
      BY <1>2, <1>3, <3>1
    <3> QED BY <3>1, <3>2, GreatestOf
  <2> QED BY <2>3, <2>4 DEF LastTouch, TouchesOf
<1>10. \A i, j \in DOMAIN list : list[i].key = list[j].key => i = j
  <2> SUFFICES ASSUME NEW i \in DOMAIN list, NEW j \in DOMAIN list,
                      list[i].key = list[j].key, i < j
      PROVE FALSE
    BY <1>4
  <2>1. LastTouch(list[i].key)' < LastTouch(list[j].key)' BY <1>1
  <2>2. PICK k \in Keys : list[i].key = k /\ list[j].key = k
    <3>1. list[i] \in Entries BY <1>1
    <3> QED BY <3>1 DEF Entries
  <2>3. LastTouch(k)' < LastTouch(k)' BY <2>1, <2>2
  <2>4. LastTouch(k)' \in Int BY <1>9, <2>2
  <2> QED BY <2>3, <2>4
<1>11. CacheTypeOK'
  <2>1. Len(entries') <= CacheSize
    <3>0. from \in Int OBVIOUS
    <3>1. Len(list) \in Int /\ CacheSize \in Int
      <4>1. \A n \in Nat : n \in Int OBVIOUS
      <4> QED BY <1>2, <1>4, <4>1, Zenon
    <3>2. \A f, l, c \in Int : l + 1 <= c + f => l - f + 1 <= c OBVIOUS
    <3>3. Len(list) - from + 1 <= CacheSize BY <3>0, <3>1, <3>2, Zenon
    <3> QED BY <1>5, <3>3, Zenon
  <2>2. \A i, j \in DOMAIN entries' : entries'[i].key = entries'[j].key => i = j
    <3> SUFFICES ASSUME NEW i \in DOMAIN entries', NEW j \in DOMAIN entries',
                        entries'[i].key = entries'[j].key
        PROVE i = j
      OBVIOUS
    <3>1. i + from - 1 = j + from - 1 BY <1>7, <1>10
    <3>2. i \in Int /\ j \in Int BY <1>6
    <3> QED BY <3>1, <3>2
  <2> QED BY <1>3, <1>5, <2>1, <2>2 DEF CacheIInv, CacheTypeOK
<1>12. \A i \in DOMAIN entries' : IsLastStored(entries[i])'
  <2> SUFFICES ASSUME NEW i \in DOMAIN entries' PROVE IsLastStored(entries[i])' OBVIOUS
  <2>1. PICK p \in DOMAIN list : p = i + from - 1 BY <1>7
  <2>2. PICK e \in Entries : e = list[p] BY <1>1
  <2>3. IsLastStored(e)' /\ entries'[i] = e BY <1>1, <1>7, <2>1, <2>2
  <2> QED BY <2>3 DEF IsLastStored
<1>13. ASSUME NEW i \in DOMAIN entries', NEW j \in DOMAIN entries', i < j
       PROVE  LastTouch(entries[i].key)' < LastTouch(entries[j].key)'
  <2>1. PICK p \in DOMAIN list, q \in DOMAIN list :
          p = i + from - 1 /\ q = j + from - 1 /\ p < q
    BY <1>4, <1>6, <1>7, <1>13
  <2>2. LastTouch(list[p].key)' < LastTouch(list[q].key)' BY <1>1, <2>1
  <2>3. entries'[i] = list[p] /\ entries'[j] = list[q] BY <1>7, <2>1
  <2> QED BY <2>2, <2>3 DEF LastTouch, TouchesOf
<1>14. LookupsMatchHistory' BY <1>2, <1>11, LookupAdded DEF CacheIInv
\* The key that was pushed out: all that stay were used since.
<1>15. ASSUME from = 2, NEW d \in Keys, d = list[1].key
       PROVE  CacheSize <= Cardinality(OthersSince(d)')
  <2> DEFINE keys == KeysAfterFirst(list)
  <2>1. Len(list) = CacheSize + 1 /\ Len(list) >= 2 BY <1>2, <1>15
  <2>2. Cardinality(keys) = CacheSize
    <3>1. Cardinality(keys) = Len(list) - 1 BY <1>1, <1>10, <2>1, KeysCounted, Zenon
    <3>2. Len(list) - 1 = CacheSize BY <1>2, <2>1
    <3> QED BY <3>1, <3>2, Zenon
  <2>3. LastTouch(d)' \in 1..Len(uses')
    <3>1. 1 \in DOMAIN list BY <1>4
    <3> QED BY <1>15, <1>9, <3>1
  <2>4. keys \subseteq OthersSince(d)'
    <3> SUFFICES ASSUME NEW i \in 2..Len(list) PROVE list[i].key \in OthersSince(d)'
      BY DEF KeysAfterFirst
    <3>1. PICK k \in Keys : k = list[i].key
      <4>1. list[i] \in Entries BY <1>1, <1>4
      <4> QED BY <4>1 DEF Entries
    <3>2. i \in DOMAIN list /\ 1 \in DOMAIN list /\ 1 < i BY <1>4
    <3>3. LastTouch(list[1].key)' < LastTouch(list[i].key)' BY <1>1, <3>2
    <3>4. LastTouch(d)' < LastTouch(k)' BY <1>15, <3>1, <3>3
    <3>5. /\ LastTouch(k)' \in 1..Len(uses')
          /\ uses'[LastTouch(k)'].key = k /\ uses'[LastTouch(k)'].op # "miss"
      BY <1>9, <3>1, <3>2
    <3>6. k # d BY <1>10, <1>15, <3>1, <3>2
    <3>7. LastTouch(k)' \in LastTouch(d)'..Len(uses') BY <2>3, <3>4, <3>5
    <3>8. LastTouch(k)' \in CallsSince(d)' BY <3>5, <3>6, <3>7 DEF CallsSince
    <3>9. uses'[LastTouch(k)'].key \in OthersSince(d)' BY <3>8 DEF OthersSince
    <3> QED BY <3>1, <3>5, <3>9
  <2>5. IsFiniteSet(OthersSince(d)')
    <3>1. CallsSince(d)' \subseteq LastTouch(d)'..Len(uses') BY DEF CallsSince
    <3>2. LastTouch(d)' \in Int /\ Len(uses') \in Int BY <1>2, <1>3, <2>3
    <3>3. IsFiniteSet({uses'[i].key : i \in CallsSince(d)'})
      BY <3>1, <3>2, KeysAreFinite, Zenon
    <3> QED BY <3>3 DEF OthersSince
  <2> HIDE DEF keys
  <2> QED BY <2>2, <2>4, <2>5, FS_Subset
<1>16. ASSUME NEW k \in Keys, StoresOf(k)' # {}, ~Holds(k)'
       PROVE  GoneForCause(k)'
  <2>1. \A i \in DOMAIN list : list[i].key = k => i < from
    <3> SUFFICES ASSUME NEW i \in DOMAIN list, list[i].key = k, i >= from PROVE FALSE
      BY <1>4
    <3> QED BY <1>8, <1>16 DEF Holds
  <2>2. CASE \E i \in DOMAIN list : list[i].key = k
    <3>1. PICK i \in DOMAIN list : list[i].key = k BY <2>2
    <3>2. i < from /\ i \in Int /\ i >= 1 BY <1>4, <2>1, <3>1
    <3>3. from = 2 /\ i = 1 BY <3>2
    <3> QED BY <1>15, <3>1, <3>3 DEF GoneForCause
  <2>3. CASE \A i \in DOMAIN list : list[i].key # k
    <3>1. k # key /\ ~Holds(k) BY <1>1, <2>3
    <3>2. StoresOf(k) # {} BY <1>2, <1>16, <3>1, Untouched
    <3>3. GoneForCause(k) BY <3>1, <3>2 DEF CacheIInv
    <3> QED BY <1>2, <1>11, <3>1, <3>2, <3>3, StaysGone
  <2> QED BY <2>2, <2>3
<1> QED BY <1>11, <1>12, <1>13, <1>14, <1>16 DEF CacheIInv

\* get finds a fresh entry: it moves to the end.
LEMMA HitKeeps == ASSUME CacheIInv, NEW key \in Keys, Hit(key) PROVE CacheIInv'
<1>1. PICK entry \in Entries :
        /\ entry = entries[EntryOf(key)] /\ EntryOf(key) \in DOMAIN entries
        /\ entry.key = key /\ ~Expired(entry)
        /\ entries' = Moved(key, entry)
        /\ Used("hit", key, entry.value, entry.expires)
  <2>1. EntryOf(key) \in DOMAIN entries /\ entries[EntryOf(key)].key = key
    BY EntryFound DEF Hit, CacheIInv
  <2> QED BY <2>1, TypeFacts DEF Hit, CacheIInv
<1>2. PICK v \in 1..MaxUses, x \in Int : v = entry.value /\ x = entry.expires
  BY DEF Entries
<1>3. CacheTypeOK /\ v \in 0..MaxUses /\ instant \in Nat BY <1>2, TypeFacts DEF CacheIInv
<1>4. IsLastStored(entry) BY <1>1 DEF CacheIInv
<1>5. /\ StoresOf(key) # {} /\ LastStore(key) = v /\ uses[v].value = v /\ uses[v].expires = x
      /\ v \in 1..Len(uses)
  <2>1. StoresOf(key) # {} /\ LastStore(key) = v /\ uses[v].value = v /\ uses[v].expires = x
    BY <1>1, <1>2, <1>4 DEF IsLastStored
  <2> QED BY <1>3, <2>1, CallsBefore
<1>6. Used("hit", key, v, x) BY <1>1, <1>2
<1>7. Fits("hit", key, v)
  <2>1. ~(x <= instant) BY <1>1, <1>2 DEF Expired
  <2> QED BY <1>3, <1>5, <2>1 DEF Fits
<1>8. StoredNow(entry)
  <2>1. /\ StoresOf(key)' = IF key = key /\ "hit" = "set" THEN StoresOf(key) \cup {Len(uses) + 1}
                            ELSE StoresOf(key)
        /\ \A i \in 1..Len(uses) : uses'[i] = uses[i]
    BY <1>3, <1>6, CallAdded
  <2>2. StoresOf(key)' = StoresOf(key) /\ LastStore(key)' = LastStore(key)
    BY <2>1 DEF LastStore
  <2>3. uses'[v] = uses[v] BY <1>5, <2>1
  <2> QED BY <1>1, <1>2, <1>5, <2>2, <2>3 DEF StoredNow, IsLastStored
<1>9. PICK list : list = Moved(key, entry) OBVIOUS
<1>10. ListFollows(list, entry) BY <1>1, <1>3, <1>6, <1>8, <1>9, MovedToEnd
<1>11. Holds(key) BY <1>1 DEF Holds
<1>12. /\ list \in Seq(Entries) /\ Len(list) = Len(entries) /\ Len(list) \in Nat
       /\ Len(list) + 1 <= CacheSize + 1
  <2>1. list \in Seq(Entries) /\ Len(list) = Len(entries)
    BY <1>1, <1>10, <1>11 DEF ListFollows
  <2> QED BY <1>3, <2>1, TypeFacts
<1>13. entries' = SubSeq(list, 1, Len(list)) BY <1>1, <1>9, <1>12, SubSeqFull
<1>14. /\ "hit" \in {"set", "hit"} /\ 1 \in {1, 2} /\ entry.key = key
       /\ 1 = 2 => Len(list) = CacheSize + 1
  BY <1>1
<1> QED
  BY <1>3, <1>6, <1>7, <1>10, <1>12, <1>13, <1>14, TouchKeeps, Zenon

\* get finds nothing, or an entry that has expired and is dropped.
LEMMA MissKeeps == ASSUME CacheIInv, NEW key \in Keys, Miss(key) PROVE CacheIInv'
<1>0. PICK rest : rest = Without(key) OBVIOUS
<1>1. /\ rest \in Seq(Entries)
      /\ Len(rest) = IF Holds(key) THEN Len(entries) - 1 ELSE Len(entries)
      /\ \A i \in DOMAIN rest :
           \E j \in DOMAIN entries : rest[i] = entries[j] /\ entries[j].key # key
      /\ \A j \in DOMAIN entries :
           entries[j].key # key => \E i \in DOMAIN rest : rest[i] = entries[j]
      /\ \A i1, i2 \in DOMAIN rest : i1 < i2 =>
           \E j1, j2 \in DOMAIN entries :
             j1 < j2 /\ rest[i1] = entries[j1] /\ rest[i2] = entries[j2]
  BY <1>0, EntriesWithout DEF CacheIInv
<1>2. /\ entries' = rest /\ Used("miss", key, 0, 0) /\ CacheTypeOK
      /\ 0 \in 0..MaxUses /\ 0 \in Int /\ "miss" \in {"set", "hit", "miss"}
  BY <1>0, CacheAssumption DEF Miss, CacheIInv
<1>3. /\ uses' \in Seq(Uses) /\ Len(uses') <= MaxUses /\ instant' = instant
  BY <1>2, CallAdded
<1>4. \A k \in Keys :
        /\ TouchesOf(k)' = TouchesOf(k) /\ LastTouch(k)' = LastTouch(k)
        /\ StoresOf(k)' = StoresOf(k) /\ LastStore(k)' = LastStore(k)
        /\ StoresOf(k) # {} => uses'[LastStore(k)] = uses[LastStore(k)]
  BY <1>2, Untouched
<1>5. CacheTypeOK'
  <2>1. Len(rest) <= CacheSize
    <3>1. Len(entries) <= CacheSize /\ Len(entries) \in Nat /\ CacheSize \in Nat
      BY <1>2, TypeFacts
    <3>2. Len(rest) = Len(entries) - 1 \/ Len(rest) = Len(entries) BY <1>1
    <3> QED BY <3>1, <3>2
  <2>2. \A i, j \in DOMAIN rest : rest[i].key = rest[j].key => i = j
    <3> SUFFICES ASSUME NEW i \in DOMAIN rest, NEW j \in DOMAIN rest, i < j,
                        rest[i].key = rest[j].key
        PROVE FALSE
      BY <1>1
    <3>1. PICK p \in DOMAIN entries, q \in DOMAIN entries :
            p < q /\ rest[i] = entries[p] /\ rest[j] = entries[q]
      BY <1>1
    <3>2. p = q BY <1>2, <3>1 DEF CacheTypeOK
    <3> QED BY <1>2, <3>1, <3>2, TypeFacts
  <2> QED BY <1>1, <1>2, <1>3, <2>1, <2>2 DEF CacheTypeOK
<1>6. ASSUME NEW i \in DOMAIN entries' PROVE IsLastStored(entries[i])'
  <2>1. PICK j \in DOMAIN entries : rest[i] = entries[j] BY <1>1, <1>2
  <2>2. PICK e \in Entries, k \in Keys, v \in Int :
          e = entries[j] /\ k = e.key /\ v = e.value
    BY <1>2, TypeFacts
  <2>3. StoresOf(k) # {} /\ LastStore(k) = v /\ uses[v].value = v /\ uses[v].expires = e.expires
    BY <2>2 DEF CacheIInv, IsLastStored
  <2>4. StoresOf(k)' # {} /\ LastStore(k)' = v /\ uses'[v].value = v /\ uses'[v].expires = e.expires
    BY <1>4, <2>3
  <2>5. entries'[i] = e BY <1>2, <2>1, <2>2
  <2> QED BY <2>2, <2>4, <2>5 DEF IsLastStored, StoresOf, TouchesOf, LastStore
<1>7. ASSUME NEW i \in DOMAIN entries', NEW j \in DOMAIN entries', i < j
      PROVE  LastTouch(entries[i].key)' < LastTouch(entries[j].key)'
  <2>1. PICK p \in DOMAIN entries, q \in DOMAIN entries :
          p < q /\ rest[i] = entries[p] /\ rest[j] = entries[q]
    BY <1>1, <1>2, <1>7
  <2>2. PICK k \in Keys, l \in Keys : k = entries[p].key /\ l = entries[q].key
    BY <1>2, TypeFacts
  <2>3. LastTouch(k) < LastTouch(l) BY <2>1, <2>2 DEF CacheIInv
  <2>4. LastTouch(k)' < LastTouch(l)' BY <1>4, <2>3
  <2>5. entries'[i].key = k /\ entries'[j].key = l BY <1>2, <2>1, <2>2
  <2> QED BY <2>4, <2>5 DEF LastTouch, TouchesOf
\* What is dropped, if anything, had expired.
<1>8. Holds(key) => uses[LastStore(key)].expires <= instant
  <2> SUFFICES ASSUME Holds(key) PROVE uses[LastStore(key)].expires <= instant OBVIOUS
  <2>1. EntryOf(key) \in DOMAIN entries /\ entries[EntryOf(key)].key = key
        /\ Expired(entries[EntryOf(key)])
    BY <1>2, EntryFound DEF Miss
  <2> QED BY <2>1 DEF CacheIInv, IsLastStored, Expired
<1>9. ASSUME NEW k \in Keys, StoresOf(k)' # {}, ~Holds(k)' PROVE GoneForCause(k)'
  <2>1. StoresOf(k) # {} BY <1>4, <1>9
  <2>2. GoneForCause(k)
    <3>1. CASE Holds(k)
      <4>1. k = key
        <5>1. PICK j \in DOMAIN entries : entries[j].key = k BY <3>1 DEF Holds
        <5> QED BY <1>1, <1>2, <1>9, <5>1 DEF Holds
      <4> QED BY <1>8, <3>1, <4>1 DEF GoneForCause
    <3>2. CASE ~Holds(k) BY <2>1, <3>2 DEF CacheIInv
    <3> QED BY <3>1, <3>2
  <2> QED BY <1>2, <1>5, <2>1, <2>2, StaysGone
<1>10. Fits("miss", key, 0)
  <2> SUFFICES ASSUME StoresOf(key) # {}, instant < uses[LastStore(key)].expires,
                      CacheSize > Cardinality(OthersSince(key))
      PROVE FALSE
    BY DEF Fits
  <2>1. uses[LastStore(key)].expires \in Int /\ instant \in Int
    BY <1>2, CallsBefore, TypeFacts
  <2>2. ~Holds(key) BY <1>8, <2>1
  <2>3. CacheSize <= Cardinality(OthersSince(key)) BY <2>1, <2>2 DEF CacheIInv, GoneForCause
  <2>4. Cardinality(OthersSince(key)) \in Nat
    <3>1. TouchesOf(key) # {} BY <1>2, CallsBefore
    <3> QED BY <1>2, <3>1, OthersFinite
  <2> QED BY <1>2, <2>3, <2>4, TypeFacts
<1>11. LookupsMatchHistory' BY <1>2, <1>5, <1>10, LookupAdded DEF CacheIInv
<1> QED BY <1>5, <1>6, <1>7, <1>9, <1>11 DEF CacheIInv

\* set, which may push the entry out that was used least recently.
LEMMA SetKeeps ==
  ASSUME CacheIInv, NEW key \in Keys, NEW ttl \in CacheTtls, Set(key, ttl)
  PROVE  CacheIInv'
<1>1. PICK n \in Nat, x \in Int : n = Len(uses) + 1 /\ x = instant + ttl
  BY TypeFacts, CacheAssumption DEF CacheIInv
<1>2. PICK entry : entry = [key |-> key, value |-> n, expires |-> x] OBVIOUS
<1>3. PICK list : list = Moved(key, entry) OBVIOUS
<1>4. /\ entries' = Evicted(list) /\ Used("set", key, n, x)
      /\ entry.key = key /\ entry.value = n /\ entry.expires = x
  BY <1>1, <1>2, <1>3 DEF Set
<1>5. /\ CacheTypeOK /\ n \in 0..MaxUses /\ n \in 1..MaxUses /\ entry \in Entries
      /\ Len(uses) \in Nat
  <2>1. CacheTypeOK /\ Len(uses) \in Nat BY TypeFacts DEF CacheIInv
  <2>2. Len(uses) < MaxUses BY <1>4 DEF Used
  <2>3. n \in 1..MaxUses BY <1>1, <2>1, <2>2, CacheAssumption
  <2> QED BY <1>2, <2>1, <2>3 DEF Entries
<1>6. /\ uses'[n].value = n /\ uses'[n].expires = x
      /\ StoresOf(key)' = StoresOf(key) \cup {n}
  <2>1. /\ uses'[Len(uses) + 1] = [op |-> "set", key |-> key, value |-> n, at |-> instant,
                                   expires |-> x]
        /\ StoresOf(key)' = IF key = key /\ "set" = "set" THEN StoresOf(key) \cup {Len(uses) + 1}
                            ELSE StoresOf(key)
    BY <1>4, <1>5, CallAdded
  <2> QED BY <1>1, <2>1
<1>7. LastStore(key)' = n
  <2>1. StoresOf(key) \subseteq 1..Len(uses) BY <1>5, CallsBefore
  <2> DEFINE now == StoresOf(key)'
  <2>2. now \subseteq Int /\ n \in now /\ \A i \in now : i <= n BY <1>1, <1>5, <1>6, <2>1
  <2>3. Max(now) = n
    <3> HIDE DEF now
    <3>1. Max(now) \in now /\ n <= Max(now) BY <2>2, GreatestOf
    <3>2. Max(now) <= n /\ Max(now) \in Int BY <2>2, <3>1
    <3> QED BY <3>1, <3>2
  <2> QED BY <2>3 DEF LastStore
<1>8. StoredNow(entry) BY <1>4, <1>6, <1>7 DEF StoredNow, IsLastStored
<1>9. ListFollows(list, entry) BY <1>3, <1>4, <1>5, <1>8, MovedToEnd
<1>10. /\ list \in Seq(Entries) /\ Len(list) \in Nat
       /\ Len(list) <= CacheSize + 1 /\ CacheSize \in Nat /\ CacheSize > 0
  <2>1. /\ list \in Seq(Entries)
        /\ Len(list) = IF Holds(key) THEN Len(entries) ELSE Len(entries) + 1
    BY <1>4, <1>9 DEF ListFollows
  <2>2. Len(list) \in Nat BY <2>1
  <2> QED BY <1>5, <2>1, <2>2, TypeFacts
<1>11. PICK from \in {1, 2} : /\ from = Max({1, Len(list) - CacheSize + 1})
                              /\ Len(list) + 1 <= CacheSize + from
                              /\ from = 2 => Len(list) = CacheSize + 1
  <2> DEFINE wanted == Len(list) - CacheSize + 1
  <2>1. wanted \in Int /\ wanted <= 2 BY <1>10
  <2>2. Max({1, wanted}) = IF wanted <= 1 THEN 1 ELSE wanted
    <3> HIDE DEF wanted
    <3>1. /\ {1, wanted} \subseteq Int /\ {1, wanted} # {} /\ 2 \in Int
          /\ \A i \in {1, wanted} : i <= 2
      BY <2>1
    <3>2. Max({1, wanted}) \in {1, wanted} /\ \A i \in {1, wanted} : i <= Max({1, wanted})
      BY <3>1, GreatestOf
    <3> QED BY <2>1, <3>2
  <2>3. CASE wanted <= 1
    <3>1. Max({1, wanted}) = 1 BY <2>2, <2>3
    <3>2. Len(list) + 1 <= CacheSize + 1 BY <1>10, <2>3
    <3> QED BY <3>1, <3>2
  <2>4. CASE ~(wanted <= 1)
    <3>1. wanted = 2 BY <2>1, <2>4
    <3>2. Max({1, wanted}) = 2 BY <2>2, <2>4, <3>1
    <3>3. Len(list) = CacheSize + 1 BY <1>10, <3>1
    <3> QED BY <1>10, <3>2, <3>3
  <2> QED BY <2>3, <2>4
<1>12. entries' = SubSeq(list, from, Len(list)) BY <1>4, <1>11 DEF Evicted
<1>13. Fits("set", key, n) BY DEF Fits
<1>14. "set" \in {"set", "hit"} OBVIOUS
<1> QED BY <1>1, <1>4, <1>5, <1>9, <1>11, <1>12, <1>13, <1>14, TouchKeeps, Zenon

\* Time passes, and entries may expire where they are.
LEMMA TimeKeeps == ASSUME CacheIInv, TimePasses PROVE CacheIInv'
<1>1. entries' = entries /\ uses' = uses /\ instant' = instant + 1 /\ instant \in Nat
  BY TypeFacts DEF TimePasses, CacheIInv
<1>2. CacheTypeOK' BY <1>1, CacheAssumption DEF TimePasses, CacheIInv, CacheTypeOK
<1>3. ASSUME NEW k \in Keys, GoneForCause(k), StoresOf(k) # {} PROVE GoneForCause(k)'
  <2>1. uses[LastStore(k)].expires \in Int BY <1>3, CallsBefore, TypeFacts DEF CacheIInv
  <2> QED BY <1>1, <1>3, <2>1
      DEF GoneForCause, LastStore, StoresOf, TouchesOf, OthersSince, CallsSince, LastTouch
<1>4. /\ \A i \in DOMAIN entries' : IsLastStored(entries[i])'
      /\ \A i, j \in DOMAIN entries' :
           i < j => LastTouch(entries[i].key)' < LastTouch(entries[j].key)'
      /\ \A k \in Keys : StoresOf(k)' = StoresOf(k) /\ Holds(k)' = Holds(k)
  BY <1>1 DEF CacheIInv, IsLastStored, LastTouch, TouchesOf, StoresOf, LastStore, Holds
<1>5. LookupsMatchHistory' BY <1>1, <1>2, SameLookups DEF CacheIInv
<1> QED BY <1>2, <1>3, <1>4, <1>5 DEF CacheIInv

-----------------------------------------------------------------------------
(* CompletionCache: the specification *)

\* Before the first call.
LEMMA CacheInitSound == CacheInit => CacheIInv
<1> SUFFICES ASSUME CacheInit PROVE CacheIInv OBVIOUS
<1>1. entries = <<>> /\ instant = 0 /\ uses = <<>> BY DEF CacheInit
<1>2. CacheTypeOK BY <1>1, CacheAssumption DEF CacheTypeOK
<1>3. \A k \in Keys : StoresOf(k) = {} BY <1>1 DEF StoresOf, TouchesOf
<1> QED BY <1>1, <1>2, <1>3 DEF CacheIInv, LookupsMatchHistory

\* Every step preserves the invariant.
LEMMA CacheStepSound == CacheIInv /\ [CacheNext]_cacheVars => CacheIInv'
<1> SUFFICES ASSUME CacheIInv, [CacheNext]_cacheVars PROVE CacheIInv' OBVIOUS
<1>1. ASSUME NEW key \in Keys, Hit(key) PROVE CacheIInv' BY <1>1, HitKeeps
<1>2. ASSUME NEW key \in Keys, Miss(key) PROVE CacheIInv' BY <1>2, MissKeeps
<1>3. ASSUME NEW key \in Keys, NEW ttl \in CacheTtls, Set(key, ttl) PROVE CacheIInv'
  BY <1>3, SetKeeps
<1>4. CASE TimePasses BY <1>4, TimeKeeps
<1>5. CASE UNCHANGED cacheVars
  <2>1. entries' = entries /\ uses' = uses /\ instant' = instant BY <1>5 DEF cacheVars
  <2>2. CacheTypeOK' BY <2>1 DEF CacheIInv, CacheTypeOK
  <2>3. LookupsMatchHistory' BY <2>1, <2>2, SameLookups DEF CacheIInv
  <2>4. /\ \A i \in DOMAIN entries' : IsLastStored(entries[i])'
        /\ \A i, j \in DOMAIN entries' :
             i < j => LastTouch(entries[i].key)' < LastTouch(entries[j].key)'
    BY <2>1 DEF CacheIInv, IsLastStored, LastTouch, TouchesOf, StoresOf, LastStore
  <2>5. ASSUME NEW k \in Keys, StoresOf(k)' # {}, ~Holds(k)' PROVE GoneForCause(k)'
    <3>1. StoresOf(k) # {} /\ ~Holds(k) BY <2>1, <2>5 DEF StoresOf, TouchesOf, Holds
    <3>2. GoneForCause(k) BY <3>1 DEF CacheIInv
    <3>3. LastStore(k)' = LastStore(k) /\ OthersSince(k)' = OthersSince(k)
      BY <2>1 DEF LastStore, StoresOf, TouchesOf, OthersSince, CallsSince, LastTouch
    <3> QED BY <2>1, <3>2, <3>3 DEF GoneForCause
  <2> QED BY <2>2, <2>3, <2>4, <2>5 DEF CacheIInv
<1>6. ASSUME NEW key \in Keys, NEW ttl \in CacheTtls, SetNothing(key, ttl)
      PROVE UNCHANGED cacheVars
  BY <1>6 DEF SetNothing
<1> QED BY <1>1, <1>2, <1>3, <1>4, <1>5, <1>6 DEF CacheNext

\* Whatever is asked for and stored, in any order and however often, `get` and `set` keep
\* the entries in the order of their last use, each as the last `set` of its key made it,
\* and a key without one was pushed out or had expired.
THEOREM CacheInvariant == CacheSpec => []CacheIInv
<1>1. CacheInit => CacheIInv BY CacheInitSound
<1>2. CacheIInv /\ [CacheNext]_cacheVars => CacheIInv' BY CacheStepSound
<1> QED BY <1>1, <1>2, PTL DEF CacheSpec

\* Type correctness: no key is there twice, and the cap of `set` is never exceeded.
THEOREM CacheTypeCorrect == CacheSpec => []CacheTypeOK
<1>1. CacheIInv => CacheTypeOK BY DEF CacheIInv
<1> QED BY <1>1, CacheInvariant, PTL

\* For a cache of any size: what `get` returns is what `set` stored last under the key, in
\* the time that `set` gave it, and a miss was due for want of a store, of time or of room.
THEOREM LookupsMatch == CacheSpec => []LookupsMatchHistory
<1>1. CacheIInv => LookupsMatchHistory BY DEF CacheIInv
<1> QED BY <1>1, CacheInvariant, PTL

-----------------------------------------------------------------------------
(***************************************************************************)
(* RegistryFeed.  The document in hand was valid when it was taken, so it  *)
(* was not among those that had expired when the gateway started; a cache  *)
(* file that is whole was written from such a document, by this process or *)
(* an earlier one; and as long as none was taken, the router is on the     *)
(* seed.                                                                   *)
(***************************************************************************)

\* A document that was taken, and one that gave a result.
Parsed(v) == v \in Versions /\ v <= newest /\ flaw[v] \in {"none", "version"}
Signed(v) == Parsed(v) /\ flaw[v] # "version"

\* What a start has taken by the time it gets there.
StartSound ==
    /\ gateway \in {"cache", "network"} => loaded = Seed
    /\ gateway \in {"cache", "network", "persist", "persisting", "swap"} =>
         registry = Seed /\ routed = Seed
    /\ gateway \in {"persist", "persisting", "swap"} =>
         Parsed(loaded) /\ loaded \notin bootExpired
    /\ gateway = "swap" => Signed(loaded)

FeedIInv ==
    /\ FeedTypeOK
    /\ bootExpired \subseteq expired
    /\ cacheFile.state = "whole" => Parsed(cacheFile.version)
    /\ StartSound
    /\ RegistryVouchedFor

-----------------------------------------------------------------------------
(* RegistryFeed: steps *)

\* The bounds are numbers and the seed is no version.
LEMMA Numbers ==
  ASSUME FeedTypeOK
  PROVE  /\ MaxVersion \in Nat /\ MaxStops \in Nat
         /\ newest \in 0..MaxVersion
         /\ Versions \subseteq Int /\ Seed \notin Versions
         /\ cacheFile.state \in {"absent", "cutText", "cutCharacter", "whole"}
         /\ cacheFile.version \in Versions \cup {Seed} /\ cacheFile.fresh \in BOOLEAN
BY RegistryFeedAssumption DEF FeedTypeOK, Versions, Seed, CacheFiles

\* Before the first start.
LEMMA FeedInitSound == FeedInit => FeedIInv
<1> SUFFICES ASSUME FeedInit PROVE FeedIInv OBVIOUS
<1>1. FeedTypeOK
  <2>1. cacheFile \in CacheFiles BY DEF FeedInit, NoFile, CacheFiles
  <2>2. newest \in 0..MaxVersion /\ stops \in 0..MaxStops
    BY RegistryFeedAssumption DEF FeedInit
  <2> QED BY <2>1, <2>2 DEF FeedInit, FeedTypeOK
<1> QED BY <1>1 DEF FeedInit, FeedIInv, NoFile, StartSound, RegistryVouchedFor

\* The gateway is started, on the seed.
LEMMA FeedStartKeeps == ASSUME FeedIInv, StartGateway PROVE FeedIInv'
<1>1. FeedTypeOK' BY DEF FeedIInv, FeedTypeOK, StartGateway
<1> QED BY <1>1 DEF FeedIInv, StartGateway, StartSound, RegistryVouchedFor, Signed, Parsed

\* The cache file is read.
LEMMA ReadKeeps == ASSUME FeedIInv, ReadCache PROVE FeedIInv'
<1>1. FeedTypeOK BY DEF FeedIInv
<1>2. UNCHANGED <<cacheFile, registry, routed, newest, flaw, expired, bootExpired, stops>>
  BY DEF ReadCache
<1>3. gateway = "cache" /\ loaded = Seed /\ registry = Seed /\ routed = Seed
  BY DEF ReadCache, FeedIInv, StartSound
<1>4. CASE GoesOn("network")
  <2>1. FeedTypeOK' BY <1>1, <1>2, <1>4 DEF FeedTypeOK, GoesOn
  <2> QED BY <1>2, <1>3, <1>4, <2>1
          DEF FeedIInv, GoesOn, StartSound, RegistryVouchedFor, Signed, Parsed
<1>5. CASE StartFails
  <2>1. FeedTypeOK' BY <1>1, <1>2, <1>5 DEF FeedTypeOK, StartFails
  <2> QED BY <1>2, <1>3, <1>5, <2>1
          DEF FeedIInv, StartFails, StartSound, RegistryVouchedFor, Signed, Parsed
<1>6. CASE /\ cacheFile.state = "whole" /\ Valid(cacheFile.version)
           /\ Takes(cacheFile.version, "swap")
  <2>1. Signed(cacheFile.version) BY <1>6 DEF FeedIInv, Valid, Signed
  <2>2. FeedTypeOK' BY <1>1, <1>2, <1>6, <2>1 DEF FeedTypeOK, Takes, Signed, Parsed
  <2>3. cacheFile.version \notin bootExpired BY <1>6 DEF FeedIInv, Valid
  <2> QED BY <1>2, <1>3, <1>6, <2>1, <2>2, <2>3
          DEF FeedIInv, Takes, StartSound, RegistryVouchedFor, Signed, Parsed
<1> QED BY <1>1, <1>4, <1>5, <1>6, Numbers DEF ReadCache

\* The feed is asked for a document.
LEMMA FeedFetchKeeps ==
  ASSUME FeedIInv, FetchFails \/ \E v \in Versions : FetchAnswers(v) PROVE FeedIInv'
<1>1. FeedTypeOK BY DEF FeedIInv
<1>2. UNCHANGED <<cacheFile, registry, routed, newest, flaw, expired, bootExpired, stops>>
  BY DEF FetchFails, FetchAnswers
<1>3. gateway = "network" /\ loaded = Seed /\ registry = Seed /\ routed = Seed
  BY DEF FetchFails, FetchAnswers, FeedIInv, StartSound
<1>4. CASE GoesOn("up")
  <2>1. FeedTypeOK' BY <1>1, <1>2, <1>4 DEF FeedTypeOK, GoesOn
  <2> QED BY <1>2, <1>3, <1>4, <2>1
          DEF FeedIInv, GoesOn, StartSound, RegistryVouchedFor, Signed, Parsed
<1>5. CASE StartFails
  <2>1. FeedTypeOK' BY <1>1, <1>2, <1>5 DEF FeedTypeOK, StartFails
  <2> QED BY <1>2, <1>3, <1>5, <2>1
          DEF FeedIInv, StartFails, StartSound, RegistryVouchedFor, Signed, Parsed
<1>6. ASSUME NEW v \in Versions, v <= newest, Takes(v, "persist"),
             Valid(v) \/ (Raises(v) /\ flaw[v] = "version")
      PROVE FeedIInv'
  <2>1. Parsed(v) /\ v \notin bootExpired BY <1>6 DEF Parsed, Valid, Raises, FeedIInv
  <2>2. FeedTypeOK' BY <1>1, <1>2, <1>6 DEF FeedTypeOK, Takes
  <2> QED BY <1>2, <1>3, <1>6, <2>1, <2>2
          DEF FeedIInv, Takes, StartSound, RegistryVouchedFor, Signed, Parsed
<1>7. CASE FetchFails BY <1>4, <1>7 DEF FetchFails
<1>8. ASSUME NEW v \in Versions, FetchAnswers(v) PROVE FeedIInv'
  <2>0. v <= newest BY <1>8 DEF FetchAnswers
  <2>1. CASE Raises(v) /\ flaw[v] # "version" /\ StartFails BY <1>5, <2>1
  <2>2. CASE Valid(v) /\ Takes(v, "persist") BY <1>6, <2>0, <2>2 DEF Valid
  <2>3. CASE Raises(v) /\ flaw[v] = "version" /\ Takes(v, "persist")
    BY <1>6, <2>0, <2>3
  <2>4. CASE ~Raises(v) /\ ~Valid(v) /\ GoesOn("up") BY <1>4, <2>4
  <2> QED BY <1>8, <2>1, <2>2, <2>3, <2>4 DEF FetchAnswers
<1> QED BY <1>7, <1>8

\* The cache file is written.
LEMMA WriteKeeps ==
  ASSUME FeedIInv, WriteCacheBegins \/ WriteCacheEnds \/ WriteCacheFails PROVE FeedIInv'
<1>1. FeedTypeOK BY DEF FeedIInv
<1>2. CASE WriteCacheBegins
  <2>1. FeedTypeOK' /\ cacheFile'.state # "whole"
    BY <1>1, <1>2 DEF WriteCacheBegins, FeedTypeOK, CacheFiles
  <2> QED BY <1>2, <2>1
          DEF WriteCacheBegins, FeedIInv, StartSound, RegistryVouchedFor, Signed, Parsed
<1>3. CASE WriteCacheEnds
  <2>1. FeedTypeOK' /\ cacheFile'.version = loaded
    BY <1>1, <1>3 DEF WriteCacheEnds, Fetched, StartFails, GoesOn, FeedTypeOK, CacheFiles
  <2> QED BY <1>3, <2>1
          DEF WriteCacheEnds, Fetched, StartFails, GoesOn, FeedIInv, StartSound,
              RegistryVouchedFor, Signed, Parsed
<1>4. CASE WriteCacheFails
  <2>1. FeedTypeOK' BY <1>1, <1>4 DEF WriteCacheFails, Fetched, StartFails, GoesOn, FeedTypeOK
  <2> QED BY <1>4, <2>1
          DEF WriteCacheFails, Fetched, StartFails, GoesOn, FeedIInv, StartSound,
              RegistryVouchedFor, Signed, Parsed
<1> QED BY <1>2, <1>3, <1>4

\* The registry and the router are swapped.
LEMMA SwapKeeps == ASSUME FeedIInv, SwapRegistry PROVE FeedIInv'
<1>1. FeedTypeOK' BY DEF FeedIInv, FeedTypeOK, SwapRegistry
<1> QED BY <1>1 DEF FeedIInv, SwapRegistry, StartSound, RegistryVouchedFor, Signed, Parsed

\* The gateway is killed.
LEMMA StopKeeps == ASSUME FeedIInv, StopGateway PROVE FeedIInv'
<1>1. FeedTypeOK'
  BY RegistryFeedAssumption DEF FeedIInv, FeedTypeOK, StopGateway
<1> QED BY <1>1 DEF FeedIInv, StopGateway, StartSound, RegistryVouchedFor, Signed, Parsed

\* Documents are published and expire.
LEMMA WorldKeeps ==
  ASSUME FeedIInv, CacheAges \/ Publish \/ \E v \in Versions : Expire(v) PROVE FeedIInv'
<1>1. FeedTypeOK BY DEF FeedIInv
<1>2. CASE CacheAges
  <2>1. FeedTypeOK' /\ cacheFile'.state = cacheFile.state
        /\ cacheFile'.version = cacheFile.version
    BY <1>1, <1>2 DEF CacheAges, FeedTypeOK, CacheFiles
  <2> QED BY <1>2, <2>1 DEF CacheAges, FeedIInv, StartSound, RegistryVouchedFor, Signed, Parsed
<1>3. CASE Publish
  <2>1. FeedTypeOK' /\ newest <= newest'
    BY <1>1, <1>3, RegistryFeedAssumption DEF Publish, FeedTypeOK
  <2>2. \A v \in Versions : v <= newest => v <= newest'
    BY <1>1, <1>3, Numbers DEF Publish
  <2>3. registry # Seed => registry \in Versions BY <1>1 DEF FeedTypeOK
  <2> QED BY <1>3, <2>1, <2>2, <2>3
          DEF Publish, FeedIInv, StartSound, RegistryVouchedFor, Signed, Parsed
<1>4. CASE \E v \in Versions : Expire(v)
  <2>1. FeedTypeOK' BY <1>1, <1>4 DEF Expire, FeedTypeOK
  <2> QED BY <1>4, <2>1 DEF Expire, FeedIInv, StartSound, RegistryVouchedFor, Signed, Parsed
<1> QED BY <1>2, <1>3, <1>4

\* What any step of the gateway, or of the world around it, leaves true, fair or not.
LEMMA FeedStaysSound == FeedInit /\ [][FeedNext]_feedVars => []FeedIInv
<1>1. FeedIInv /\ [FeedNext]_feedVars => FeedIInv'
  <2> SUFFICES ASSUME FeedIInv, [FeedNext]_feedVars PROVE FeedIInv' OBVIOUS
  <2>1. CASE GatewayStep
    BY <2>1, ReadKeeps, FeedFetchKeeps, WriteKeeps, SwapKeeps DEF GatewayStep
  <2>2. CASE StartGateway \/ StopGateway BY <2>2, FeedStartKeeps, StopKeeps
  <2>3. CASE CacheAges \/ Publish \/ \E v \in Versions : Expire(v) BY <2>3, WorldKeeps
  <2>4. CASE UNCHANGED feedVars
    BY <2>4 DEF feedVars, FeedIInv, FeedTypeOK, StartSound, RegistryVouchedFor, Signed, Parsed
  <2> QED BY <2>1, <2>2, <2>3, <2>4 DEF FeedNext
<1> QED BY FeedInitSound, <1>1, PTL

\* The invariant holds wherever start-up is cut short and whatever documents come and expire.
THEOREM FeedInvariant == FeedSpec => []FeedIInv
BY FeedStaysSound, PTL DEF FeedSpec

\* Type correctness, for any documents and stops.
THEOREM FeedTypeCorrect == FeedSpec => []FeedTypeOK
<1>1. FeedIInv => FeedTypeOK BY DEF FeedIInv
<1> QED BY <1>1, FeedInvariant, PTL

\* Wherever the gateway is killed and whatever the feed's server answers, what it serves on
\* was signed and had not expired when it was started, and its router goes by it.
THEOREM RegistryIsVouchedFor == FeedSpec => []RegistryVouchedFor
<1>1. FeedIInv => RegistryVouchedFor BY DEF FeedIInv
<1> QED BY <1>1, FeedInvariant, PTL

-----------------------------------------------------------------------------
(***************************************************************************)
(* Setup.  What a setup leaves behind is the work of several steps, and    *)
(* part of it of earlier setups.  The invariant says at each step which    *)
(* files this setup has written by then and which it may skip, and keeps   *)
(* that until the setup is over.                                           *)
(***************************************************************************)

ClaudeSteps == {"gateway", "script", "boot", "healthz", "fetch", "cache"}
CodexSteps == {"codexScript", "config", "codexConfig", "snippet"}
Ending == {"stop", "wait", "idle"}

\* The steps belong to the tool, and an exit code to a setup that ends.
StepSound ==
    /\ step \in ClaudeSteps => command.tool # "codex"
    /\ step \in CodexSteps => command.tool = "codex"
    /\ step = "snippet" => warned
    /\ exit = "0" \/ verified => step \in Ending
    /\ step # "idle" \/ exit = "0" => command.url.scheme # ""

\* What this setup has written.
FilesSound ==
    /\ command.tool # "codex"
         /\ (step \in {"boot", "healthz", "fetch", "cache", "smoke"} \/ exit = "0") =>
         disk["script"].url = command.url
    /\ command.tool # "codex" /\ ~warned /\ (step = "smoke" \/ exit = "0") =>
         disk["cache"].state = "whole" /\ disk["cache"].url = command.url
    /\ command.tool = "codex" /\ ~warned /\ (step = "smoke" \/ exit = "0") =>
         disk["codexConfig"].url = command.url
    /\ command.tool = "selfhost"
         /\ (step \in {"script", "boot", "healthz", "fetch", "cache", "smoke"} \/ verified) =>
         disk["gateway"].keys = command.keys
    /\ command.tool = "selfhost" /\ verified => Serves(Effective)

\* No file is cut short, and a shell that sourced the script holds what it says.
DiskSound ==
    /\ \A f \in Files : disk[f].state # "torn"
    /\ shell.sourced =>
         step = "idle" /\ ~shell.token /\ shell.url = disk["script"].url

SetupIInv ==
    /\ SetupTypeOK
    /\ StepSound
    /\ FilesSound
    /\ DiskSound
    /\ NothingLeftRunning

-----------------------------------------------------------------------------
(* Setup: values *)

\* What a setup writes into a file is whole.
LEMMA WrittenType ==
  ASSUME SetupTypeOK, NEW f \in Files
  PROVE  /\ Written(f) \in Contents
         /\ Written(f).state = "whole"
         /\ f = "gateway" => Written(f).keys = command.keys
         /\ f \notin {"gateway", "codexScript"} => Written(f).url = command.url
<1>1. command.url \in BaseUrls \cup {NoUrl} /\ command.keys \in KeyRings
  BY DEF SetupTypeOK, Commands
<1>2. NoKeys \in KeyRings BY DEF NoKeys, KeyRings
<1> QED BY <1>1, <1>2 DEF Written, Content, Contents, Foreign

\* Before the first setup.
LEMMA SetupInitSound == SetupInit => SetupIInv
<1> SUFFICES ASSUME SetupInit PROVE SetupIInv OBVIOUS
<1>1. NoKeys \in KeyRings BY DEF NoKeys, KeyRings
<1>2. Absent \in Contents /\ Foreign \in Contents
      /\ Absent.state = "absent" /\ Foreign.state = "whole"
  BY <1>1 DEF Absent, Foreign, Content, Contents
<1>3. disk \in [Files -> Contents] /\ \A f \in Files : disk[f].state # "torn"
  BY <1>2 DEF SetupInit
<1>4. command \in Commands /\ shell \in Shells /\ ~shell.sourced
  BY <1>1 DEF SetupInit, Commands, Shells
<1>5. setups \in 0..MaxSetups BY SetupAssumption DEF SetupInit
<1>6. SetupTypeOK BY <1>3, <1>4, <1>5 DEF SetupInit, SetupTypeOK
<1> QED BY <1>3, <1>4, <1>6
        DEF SetupInit, SetupIInv, StepSound, FilesSound, DiskSound, NothingLeftRunning,
            GatewayRuns, ClaudeSteps, CodexSteps, Ending

-----------------------------------------------------------------------------
(* Setup: steps *)

\* Facts the steps need of the state they start from.
LEMMA SetupFacts ==
  ASSUME SetupIInv
  PROVE  /\ SetupTypeOK /\ StepSound /\ FilesSound /\ DiskSound /\ NothingLeftRunning
         /\ disk \in [Files -> Contents] /\ command \in Commands /\ shell \in Shells
         /\ step # "idle" => ~shell.sourced
         /\ {"script", "cache", "gateway", "codexScript", "codexConfig", "snippet"} = Files
BY DEF SetupIInv, SetupTypeOK, DiskSound, Files

\* Ending with an error: nothing is promised of the files, and the gateway is stopped.
LEMMA FailingKeeps ==
  ASSUME SetupIInv, step # "idle", NEW code \in {"1", "interrupted"}, Leave(code),
         UNCHANGED <<command, disk, transient, verified, shell, setups>>,
         writing' \in {writing, "open"}, warned' \in {warned, TRUE}
  PROVE  SetupIInv'
<1>1. exit' = code /\ step' \in {"stop", "idle"} /\ (step' = "idle" => ~GatewayRuns)
  BY DEF Leave
<1>2. SetupTypeOK' BY <1>1, SetupFacts DEF SetupTypeOK
<1>3. StepSound' BY <1>1, SetupFacts DEF StepSound, ClaudeSteps, CodexSteps, Ending, Files
<1>4. Serves(Effective)' <=> Serves(Effective) BY DEF Serves, Effective
<1>5. FilesSound' BY <1>1, <1>4, SetupFacts DEF FilesSound
<1>6. DiskSound' BY SetupFacts DEF DiskSound
<1>7. NothingLeftRunning' BY <1>1 DEF NothingLeftRunning, GatewayRuns
<1> QED BY <1>2, <1>3, <1>5, <1>6, <1>7 DEF SetupIInv

\* A start resets what the last setup left in the process, and refuses before it writes.
LEMMA StartKeeps ==
  ASSUME SetupIInv, NEW tool \in {"claude", "codex", "selfhost"}, NEW url \in BaseUrls,
         NEW keys \in KeyRings, NEW allowCustom \in BOOLEAN, NEW key \in BOOLEAN,
         Start(tool, url, keys, allowCustom, key)
  PROVE  SetupIInv'
<1>0. /\ step = "idle" /\ writing' = "open" /\ transient' = "none"
      /\ warned' = FALSE /\ verified' = FALSE /\ disk' = disk
      /\ shell' = [shell EXCEPT !.sourced = FALSE]
      /\ setups < MaxSetups /\ setups' = setups + 1
  BY DEF Start
<1>1. shell' \in Shells /\ ~shell'.sourced BY <1>0, SetupFacts DEF Shells
<1>2. setups' \in 0..MaxSetups BY <1>0, SetupAssumption, SetupFacts DEF SetupTypeOK
<1>3. DiskSound' BY <1>0, <1>1, SetupFacts DEF DiskSound
<1>4. NothingLeftRunning' BY <1>0 DEF NothingLeftRunning, GatewayRuns
<1>5. CASE Refused(tool, url, keys, allowCustom, key)
  <2>1. exit' = "2" /\ step' = "idle" /\ command' = command BY <1>5 DEF Start
  <2>2. SetupTypeOK' BY <1>0, <1>1, <1>2, <2>1, SetupFacts DEF SetupTypeOK
  <2>3. StepSound' /\ FilesSound'
    BY <1>0, <2>1 DEF StepSound, FilesSound, ClaudeSteps, CodexSteps
  <2> QED BY <1>3, <1>4, <2>2, <2>3 DEF SetupIInv
<1>6. CASE ~Refused(tool, url, keys, allowCustom, key)
  <2>1. /\ exit' = "none" /\ step' = First(tool)
        /\ command' = [tool |-> tool, url |-> url, keys |-> keys, env |-> shell.keys]
    BY <1>6 DEF Start
  <2>2. url.scheme # "" BY <1>6 DEF Refused, Accepted
  <2>3. command' \in Commands BY <2>1, SetupFacts DEF Commands, Shells
  <2>4. /\ tool = "claude" => step' = "script"
        /\ tool = "codex" => step' = "codexScript"
        /\ tool = "selfhost" => step' = "gateway"
    BY <2>1 DEF First
  <2>5. SetupTypeOK'
    BY <1>0, <1>1, <1>2, <2>1, <2>3, <2>4, SetupFacts DEF SetupTypeOK, Files
  <2>6. StepSound'
    BY <1>0, <2>1, <2>2, <2>4 DEF StepSound, ClaudeSteps, CodexSteps, Ending
  <2>7. FilesSound'
    <3>1. command'.tool = tool BY <2>1
    <3>2. tool = "selfhost" => step' = "gateway" BY <2>4
    <3> QED BY <1>0, <2>1, <2>4, <3>1 DEF FilesSound
  <2> QED BY <1>3, <1>4, <2>5, <2>6, <2>7 DEF SetupIInv
<1> QED BY <1>5, <1>6

\* Only the last of the three steps of a write touches the file.
LEMMA TempKeeps == ASSUME SetupIInv, OpenTemp \/ WriteTemp PROVE SetupIInv'
<1>1. /\ UNCHANGED <<command, step, disk, transient, warned, verified, exit, shell, setups>>
      /\ writing' \in {"write", "replace"}
  BY DEF OpenTemp, WriteTemp
<1>2. SetupTypeOK' BY <1>1, SetupFacts DEF SetupTypeOK
<1>3. Serves(Effective)' <=> Serves(Effective) BY <1>1 DEF Serves, Effective
<1>4. StepSound' /\ FilesSound' /\ DiskSound' /\ NothingLeftRunning'
  BY <1>1, <1>3, SetupFacts DEF StepSound, FilesSound, DiskSound, NothingLeftRunning,
                                GatewayRuns
<1> QED BY <1>2, <1>4 DEF SetupIInv

\* A file is written over, in two steps.
LEMMA ReplaceKeeps == ASSUME SetupIInv, ReplaceFile PROVE SetupIInv'
<1>0. /\ step \in Files /\ writing' = "open" /\ step' = After(step)
      /\ disk' = [disk EXCEPT ![step] = Written(step)]
      /\ UNCHANGED <<command, transient, warned, verified, exit, shell, setups>>
  BY DEF ReplaceFile
<1>1. /\ disk'[step] = Written(step)
      /\ \A f \in Files : f # step => disk'[f] = disk[f]
      /\ disk' \in [Files -> Contents]
  BY <1>0, SetupFacts, WrittenType
<1>2. /\ step = "gateway" => step' = "script"
      /\ step = "script" => step' = (IF command.tool = "selfhost" THEN "boot" ELSE "fetch")
      /\ step = "codexScript" => step' = "config"
      /\ step \in {"cache", "codexConfig", "snippet"} => step' = "smoke"
  BY <1>0 DEF After
<1>3. step \in {"script", "cache", "gateway", "codexScript", "codexConfig", "snippet"}
  BY <1>0 DEF Files
<1>4. SetupTypeOK' BY <1>0, <1>1, <1>2, <1>3, SetupFacts DEF SetupTypeOK, Files
<1>5. exit # "0" /\ ~verified BY <1>3, SetupFacts DEF StepSound, Ending, SetupTypeOK
<1>6. StepSound'
  BY <1>0, <1>2, <1>3, <1>5, SetupFacts DEF StepSound, ClaudeSteps, CodexSteps
<1>7. FilesSound'
  <2>1. CASE step = "gateway"
    BY <1>0, <1>1, <1>2, <1>5, <2>1, SetupFacts, WrittenType
       DEF FilesSound, StepSound, ClaudeSteps, Files
  <2>2. CASE step = "script"
    BY <1>0, <1>1, <1>2, <1>5, <2>2, SetupFacts, WrittenType
       DEF FilesSound, StepSound, ClaudeSteps, Files
  <2>3. CASE step = "cache"
    BY <1>0, <1>1, <1>2, <1>5, <2>3, SetupFacts, WrittenType
       DEF FilesSound, StepSound, ClaudeSteps, Files
  <2>4. CASE step \in {"codexScript", "codexConfig", "snippet"}
    BY <1>0, <1>1, <1>2, <1>5, <2>4, SetupFacts, WrittenType
       DEF FilesSound, StepSound, CodexSteps, Files
  <2> QED BY <1>3, <2>1, <2>2, <2>3, <2>4
<1>8. DiskSound'
  BY <1>0, <1>1, <1>3, SetupFacts, WrittenType DEF DiskSound
<1>9. NothingLeftRunning' BY <1>2, <1>3 DEF NothingLeftRunning
<1> QED BY <1>4, <1>6, <1>7, <1>8, <1>9 DEF SetupIInv

\* A file cannot be written.
LEMMA WriteFailsKeeps == ASSUME SetupIInv, WriteFails PROVE SetupIInv'
<1>1. CASE step = "cache"
  <2>1. /\ UNCHANGED <<command, disk, transient, verified, exit, shell, setups>>
        /\ warned' = TRUE /\ step' = "smoke" /\ writing' = "open"
    BY <1>1 DEF WriteFails
  <2>2. exit # "0" /\ ~verified BY <1>1, SetupFacts DEF StepSound, Ending, SetupTypeOK
  <2>3. SetupTypeOK' BY <2>1, SetupFacts DEF SetupTypeOK
  <2>4. StepSound' /\ FilesSound' /\ DiskSound' /\ NothingLeftRunning'
    BY <1>1, <2>1, <2>2, SetupFacts
       DEF StepSound, FilesSound, DiskSound, NothingLeftRunning, ClaudeSteps, CodexSteps
  <2> QED BY <2>3, <2>4 DEF SetupIInv
<1>2. CASE step # "cache"
  BY <1>2, FailingKeeps DEF WriteFails, Files
<1> QED BY <1>1, <1>2

\* A step that only looks, writes no file and goes on.
LEMMA QuietKeeps ==
  ASSUME SetupIInv, step \notin {"idle", "stop", "wait"},
         step' \in {"codexConfig", "snippet", "healthz", "fetch", "cache", "smoke"},
         UNCHANGED <<command, writing, disk, verified, exit, shell, setups>>,
         transient' \in {transient, "booting", "up"},
         warned' \in {warned, TRUE},
         \/ step = "config" /\ step' \in {"codexConfig", "snippet", "smoke"}
              /\ (step' \in {"snippet", "smoke"} => warned')
         \/ step = "boot" /\ step' = "healthz"
         \/ step = "healthz" /\ step' \in {"healthz", "fetch"}
         \/ step = "fetch" /\ (step' = "cache" \/ (step' = "smoke" /\ warned' = TRUE))
  PROVE  SetupIInv'
<1>1. exit # "0" /\ ~verified
  BY SetupFacts DEF StepSound, Ending
<1>2. SetupTypeOK'
  <2>1. step' \in Files \cup {"idle", "config", "boot", "healthz", "fetch", "smoke", "stop",
                             "wait"}
    BY DEF Files
  <2>2. /\ transient' \in {"none", "booting", "up", "terminating", "exited"}
        /\ warned' \in BOOLEAN
    BY SetupFacts DEF SetupTypeOK
  <2>3. SetupTypeOK BY SetupFacts
  <2> QED BY <2>1, <2>2, <2>3 DEF SetupTypeOK
<1>3. StepSound' BY <1>1, SetupFacts DEF StepSound, ClaudeSteps, CodexSteps, Ending
<1>4. FilesSound' BY <1>1, SetupFacts DEF FilesSound, StepSound, CodexSteps
<1>5. DiskSound' BY SetupFacts DEF DiskSound
<1>6. NothingLeftRunning' BY DEF NothingLeftRunning
<1> QED BY <1>2, <1>3, <1>4, <1>5, <1>6 DEF SetupIInv

\* A setup is started.
LEMMA ChooseKeeps == ASSUME SetupIInv, ChooseConfig PROVE SetupIInv'
<1>1. warned \in BOOLEAN BY SetupFacts DEF SetupTypeOK
<1>2. /\ step = "config" /\ step' \in {"codexConfig", "snippet", "smoke"}
      /\ warned' \in {warned, TRUE} /\ (step' \in {"snippet", "smoke"} => warned')
      /\ UNCHANGED <<command, writing, disk, transient, verified, exit, shell, setups>>
  BY <1>1 DEF ChooseConfig
<1> QED BY <1>2, QuietKeeps

\* The snapshot of the transient gateway is fetched.
LEMMA FetchKeeps == ASSUME SetupIInv, Fetch PROVE SetupIInv'
<1>0. /\ step = "fetch"
      /\ UNCHANGED <<command, writing, disk, transient, verified, shell, setups>>
  BY DEF Fetch
<1>1. CASE command.tool = "claude" /\ Leave("1") /\ UNCHANGED warned
  BY <1>0, <1>1, FailingKeeps
<1>2. CASE step' = "cache" /\ UNCHANGED <<warned, exit>>
  <2>1. warned \in BOOLEAN BY SetupFacts DEF SetupTypeOK
  <2>2. warned' \in {warned, TRUE} BY <1>2, <2>1
  <2>4. step = "fetch" /\ (step' = "cache" \/ (step' = "smoke" /\ warned' = TRUE))
    BY <1>0, <1>2
  <2>3. /\ step \notin {"idle", "stop", "wait"}
        /\ step' \in {"codexConfig", "snippet", "healthz", "fetch", "cache", "smoke"}
        /\ UNCHANGED <<command, writing, disk, verified, exit, shell, setups>>
        /\ transient' \in {transient, "booting", "up"}
    BY <1>0, <1>2
  <2> QED BY <2>2, <2>3, <2>4, QuietKeeps
<1>3. CASE step' = "smoke" /\ warned' = TRUE /\ UNCHANGED exit
  BY <1>0, <1>3, QuietKeeps
<1> QED BY <1>1, <1>2, <1>3 DEF Fetch

\* A setup that ends well has what it wrote, and if its gateway routed, in gateway.env the
\* keys it routed with.
LEMMA SmokeKeeps == ASSUME SetupIInv, SmokePasses \/ SmokeSkipped PROVE SetupIInv'
<1>1. /\ step = "smoke" /\ exit' = "0" /\ step' \in {"stop", "idle"}
      /\ (step' = "idle" => ~GatewayRuns)
      /\ UNCHANGED <<command, writing, disk, transient, warned, shell, setups>>
      /\ (verified' = TRUE /\ SmokeCanPass) \/ verified' = verified
  BY DEF SmokePasses, SmokeSkipped, Leave
<1>2. ~verified BY <1>1, SetupFacts DEF StepSound, Ending
<1>3. verified' /\ command.tool = "selfhost" => Serves(Effective)
  BY <1>1, <1>2 DEF SmokeCanPass
<1>4. Serves(Effective)' <=> Serves(Effective) BY <1>1 DEF Serves, Effective
<1>5. SetupTypeOK' BY <1>1, SetupFacts DEF SetupTypeOK
<1>6. StepSound' BY <1>1, SetupFacts DEF StepSound, ClaudeSteps, CodexSteps, Ending
<1>7. FilesSound' BY <1>1, <1>2, <1>3, <1>4, SetupFacts DEF FilesSound
<1>8. DiskSound' BY <1>1, SetupFacts DEF DiskSound
<1>9. NothingLeftRunning' BY <1>1 DEF NothingLeftRunning, GatewayRuns
<1> QED BY <1>5, <1>6, <1>7, <1>8, <1>9 DEF SetupIInv

\* The transient gateway is stopped.
LEMMA StoppingKeeps ==
  ASSUME SetupIInv, Terminate \/ GatewayStops \/ GatewayDies \/ GatewayComesUp \/ Kill
  PROVE  SetupIInv'
<1>1. /\ UNCHANGED <<command, disk, warned, verified, shell, setups>>
      /\ step' \in {step, "wait", "idle"}
      /\ (exit' = exit \/ (exit' = "killed" /\ step' = "idle"))
      /\ writing' \in {writing, "open"}
      /\ transient' \in {transient, "terminating", "exited", "up"}
      /\ (step' = "idle" /\ exit' # "killed" /\ transient' \in {"booting", "up"} =>
            step = "idle" /\ GatewayRuns)
      /\ (step = "idle" => step' = "idle" /\ exit' = exit)
  BY DEF Terminate, GatewayStops, GatewayDies, GatewayComesUp, Kill, GatewayRuns
<1>2. Serves(Effective)' <=> Serves(Effective) BY <1>1 DEF Serves, Effective
<1>3. SetupTypeOK' BY <1>1, SetupFacts DEF SetupTypeOK
<1>4. StepSound' BY <1>1, SetupFacts DEF StepSound, ClaudeSteps, CodexSteps, Ending
<1>5. FilesSound' BY <1>1, <1>2, SetupFacts DEF FilesSound
<1>6. DiskSound' BY <1>1, SetupFacts DEF DiskSound
<1>7. NothingLeftRunning' BY <1>1, SetupFacts DEF NothingLeftRunning, GatewayRuns
<1> QED BY <1>3, <1>4, <1>5, <1>6, <1>7 DEF SetupIInv

\* The user's shell sources the snippet.
LEMMA SourcingKeeps == ASSUME SetupIInv, SourceScript \/ SourceGateway PROVE SetupIInv'
<1>1. /\ step = "idle"
      /\ UNCHANGED <<command, step, writing, disk, transient, warned, verified, exit, setups>>
  BY DEF SourceScript, SourceGateway
<1>2. disk["script"] \in Contents /\ disk["gateway"] \in Contents BY SetupFacts
<1>3. /\ shell' \in Shells
      /\ shell'.sourced => ~shell'.token /\ shell'.url = disk["script"].url
  <2>1. CASE SourceScript
    BY <1>2, <2>1, SetupFacts DEF SourceScript, Shells, Contents
  <2>2. CASE SourceGateway
    <3> DEFINE keys == disk["gateway"].keys
               ring == [p \in Providers |->
                          IF keys[p] # "none" THEN keys[p] ELSE shell.keys[p]]
    <3>1. shell' = [shell EXCEPT !.keys = ring]
      BY <2>2, SetupFacts DEF SourceGateway, Shells
    <3>2. ring \in KeyRings
      <4>1. keys \in KeyRings /\ shell.keys \in KeyRings
        BY <1>2, SetupFacts DEF Contents, Shells
      <4> QED BY <4>1 DEF KeyRings
    <3> HIDE DEF ring
    <3>3. /\ shell' \in Shells /\ shell'.sourced = shell.sourced
          /\ shell'.token = shell.token /\ shell'.url = shell.url
      BY <3>1, <3>2, SetupFacts DEF Shells
    <3> QED BY <3>3, SetupFacts DEF DiskSound
  <2> QED BY <2>1, <2>2
<1>4. Serves(Effective)' <=> Serves(Effective) BY <1>1 DEF Serves, Effective
<1>5. SetupTypeOK' BY <1>1, <1>3, SetupFacts DEF SetupTypeOK
<1>6. StepSound' /\ FilesSound' /\ NothingLeftRunning'
  BY <1>1, <1>4, SetupFacts DEF StepSound, FilesSound, NothingLeftRunning, GatewayRuns
<1>7. DiskSound' BY <1>1, <1>3, SetupFacts DEF DiskSound
<1> QED BY <1>5, <1>6, <1>7 DEF SetupIInv

-----------------------------------------------------------------------------
(* Setup: the specification *)

\* However many setups the operator runs, and wherever each of them ends.
THEOREM SetupInvariant == SetupSpec => []SetupIInv
<1>1. SetupIInv /\ [SetupNext]_setupVars => SetupIInv'
  <2> SUFFICES ASSUME SetupIInv, [SetupNext]_setupVars PROVE SetupIInv' OBVIOUS
  <2>1. CASE SetupStep
    <3>1. CASE OpenTemp \/ WriteTemp BY <3>1, TempKeeps
    <3>2. CASE ReplaceFile BY <3>2, ReplaceKeeps
    <3>3. CASE WriteFails BY <3>3, WriteFailsKeeps
    <3>4. CASE ChooseConfig BY <3>4, ChooseKeeps
    <3>5. CASE Boot BY <3>5, QuietKeeps DEF Boot
    <3>6. CASE SeesHealthz BY <3>6, QuietKeeps DEF SeesHealthz
    <3>7. CASE HealthzTimesOut BY <3>7, FailingKeeps DEF HealthzTimesOut
    <3>8. CASE Fetch BY <3>8, FetchKeeps
    <3>9. CASE SmokePasses \/ SmokeSkipped BY <3>9, SmokeKeeps
    <3>10. CASE SmokeFails BY <3>10, FailingKeeps DEF SmokeFails
    <3>11. CASE Terminate \/ GatewayStops BY <3>11, StoppingKeeps
    <3> QED BY <2>1, <3>1, <3>2, <3>3, <3>4, <3>5, <3>6, <3>7, <3>8, <3>9, <3>10, <3>11
            DEF SetupStep
  <2>2. ASSUME NEW tool \in {"claude", "codex", "selfhost"}, NEW url \in BaseUrls,
               NEW keys \in KeyRings, NEW allowCustom \in BOOLEAN, NEW key \in BOOLEAN,
               Start(tool, url, keys, allowCustom, key)
        PROVE SetupIInv'
    BY <2>2, StartKeeps
  <2>3. CASE GatewayComesUp \/ GatewayDies \/ Kill BY <2>3, StoppingKeeps
  <2>4. CASE Interrupt BY <2>4, FailingKeeps DEF Interrupt
  <2>5. CASE SourceScript \/ SourceGateway BY <2>5, SourcingKeeps
  <2>6. CASE UNCHANGED setupVars
    <3>1. Serves(Effective)' <=> Serves(Effective) BY <2>6 DEF setupVars, Serves, Effective
    <3>2. SetupTypeOK' BY <2>6 DEF setupVars, SetupIInv, SetupTypeOK
    <3>3. StepSound' /\ FilesSound' BY <2>6, <3>1 DEF setupVars, SetupIInv, StepSound, FilesSound
    <3>4. DiskSound' /\ NothingLeftRunning'
      BY <2>6 DEF setupVars, SetupIInv, DiskSound, NothingLeftRunning, GatewayRuns
    <3> QED BY <3>2, <3>3, <3>4 DEF SetupIInv
  <2> QED BY <2>1, <2>2, <2>3, <2>4, <2>5, <2>6 DEF SetupNext
<1> QED BY SetupInitSound, <1>1, PTL DEF SetupSpec

\* Type correctness, for any URLs, providers and keys.
THEOREM SetupTypeCorrect == SetupSpec => []SetupTypeOK
<1>1. SetupIInv => SetupTypeOK BY DEF SetupIInv
<1> QED BY <1>1, SetupInvariant, PTL

\* Whatever earlier setups left half done, one that ends well and warned of nothing leaves
\* files that agree; no file is ever cut short.
THEOREM SetupLeavesReady == SetupSpec => []ReadyAfterSetup
<1>1. SetupIInv => ReadyAfterSetup
  <2> SUFFICES ASSUME SetupIInv PROVE ReadyAfterSetup OBVIOUS
  <2>1. command.tool \in {"claude", "codex", "selfhost"}
    BY SetupFacts DEF Commands
  <2>2. exit = "0" => command.url # NoUrl
    <3>1. NoUrl.scheme = "" BY DEF NoUrl
    <3> QED BY <3>1, SetupFacts DEF StepSound
  <2> QED BY <2>1, <2>2, SetupFacts
          DEF ReadyAfterSetup, Succeeded, EnvironmentIsClean, CacheIsGood, FilesSound,
              DiskSound
<1> QED BY <1>1, SetupInvariant, PTL

\* Routing that a self-host setup says it verified works with the file it wrote.
THEOREM VerifiedRoutes == SetupSpec => []VerifiedConfigRoutes
<1>1. SetupIInv => VerifiedConfigRoutes
  <2> SUFFICES ASSUME SetupIInv, command.tool = "selfhost", verified,
                      Given(command.env) \subseteq Given(command.keys)
               PROVE  Serves(disk["gateway"].keys)
    BY DEF VerifiedConfigRoutes
  <2>1. Serves(Effective) /\ disk["gateway"].keys = command.keys
    BY SetupFacts DEF FilesSound
  <2>2. command.keys \in [Providers -> {"none", "good", "bad"}]
        /\ command.env \in [Providers -> {"none", "good", "bad"}]
    BY SetupFacts DEF Commands, KeyRings
  <2>3. \A p \in Providers : Effective[p] = command.keys[p]
    BY <2>2 DEF Effective, Given
  <2>4. Effective = command.keys BY <2>2, <2>3 DEF Effective
  <2> QED BY <2>1, <2>4
<1> QED BY <1>1, SetupInvariant, PTL

\* However a setup ends, its gateway is gone or was told to stop, unless it was killed.
THEOREM NoGatewayLeft == SetupSpec => []NothingLeftRunning
<1>1. SetupIInv => NothingLeftRunning BY DEF SetupIInv
<1> QED BY <1>1, SetupInvariant, PTL

-----------------------------------------------------------------------------
(***************************************************************************)
(* MCHost.  A step of the host is a step of one part and leaves the        *)
(* variables of the others alone, so a behaviour of the host is one of     *)
(* each part, and keeps what each part promises.                           *)
(***************************************************************************)

\* A step of the host is, for each part, a step of that part or none.
LEMMA StepOfEachPart ==
  ASSUME [HostNext]_hostVars
  PROVE  /\ [SetupNext]_setupVars /\ [FeedNext]_feedVars /\ [CallsNext]_callVars
         /\ [StallNext]_stallVars /\ [CacheNext]_cacheVars /\ [Next]_vars
         /\ [ResponsesNext]_responsesVars /\ [TranslationNext]_translationVars
<1> USE DEF onHost, inProcess, toClient
<1>1. CASE SetupPart BY <1>1 DEF SetupPart
<1>2. CASE FeedPart BY <1>2 DEF FeedPart
<1>3. CASE CallsPart BY <1>3 DEF CallsPart
<1>4. CASE StallPart BY <1>4 DEF StallPart
<1>5. CASE CachePart BY <1>5 DEF CachePart
<1>6. CASE MessagesPart BY <1>6 DEF MessagesPart
<1>7. CASE ResponsesPart BY <1>7 DEF ResponsesPart
<1>8. CASE TranslationPart BY <1>8 DEF TranslationPart
<1>9. CASE UNCHANGED hostVars BY <1>9 DEF hostVars
<1> QED BY <1>1, <1>2, <1>3, <1>4, <1>5, <1>6, <1>7, <1>8, <1>9 DEF HostNext

\* The parts run side by side as each does alone; only the feed's fairness is the host's.
THEOREM HostComposes ==
  HostSpec => /\ SetupSpec /\ FeedInit /\ [][FeedNext]_feedVars
              /\ CallsSpec /\ StallSpec /\ CacheSpec
              /\ Spec /\ ResponsesSpec /\ TranslationSpec
<1>1. HostInit => /\ SetupInit /\ FeedInit /\ CallsInit /\ StallInit /\ CacheInit
                  /\ Init /\ ResponsesInit /\ TranslationInit
  BY DEF HostInit
<1>2. [HostNext]_hostVars =>
        /\ [SetupNext]_setupVars /\ [FeedNext]_feedVars /\ [CallsNext]_callVars
        /\ [StallNext]_stallVars /\ [CacheNext]_cacheVars /\ [Next]_vars
        /\ [ResponsesNext]_responsesVars /\ [TranslationNext]_translationVars
  BY StepOfEachPart
<1> QED
  BY <1>1, <1>2, PTL
     DEF HostSpec, SetupSpec, CallsSpec, StallSpec, CacheSpec, Spec, ResponsesSpec,
         TranslationSpec

\* Type correctness of the whole host: each part's types hold while the others stand still.
THEOREM HostTypeCorrect == HostSpec => []HostTypeOK
<1>1. /\ SetupTypeOK /\ FeedIInv /\ CallsTypeOK /\ StallTypeOK /\ CacheTypeOK
      /\ TypeOK /\ ResponsesTypeOK /\ TranslationTypeOK
      => HostTypeOK
  BY DEF HostTypeOK, FeedIInv
<1> QED
  BY <1>1, HostComposes, SetupTypeCorrect, FeedStaysSound, CallsTypeCorrect,
     StallTypeCorrect, CacheTypeCorrect, TypeCorrect, ResponsesTypeCorrect,
     TranslationTypeCorrect, PTL

\* What lies on the operator's host keeps its promises there: a setup that succeeds leaves a
\* config that routes and no gateway running, and the feed's registry is vouched for.
THEOREM HostKeepsConfigs ==
  HostSpec => [](ReadyAfterSetup /\ VerifiedConfigRoutes /\ NothingLeftRunning
                 /\ RegistryVouchedFor)
<1>1. FeedIInv => RegistryVouchedFor BY DEF FeedIInv
<1> QED
  BY <1>1, HostComposes, SetupLeavesReady, VerifiedRoutes, NoGatewayLeft, FeedStaysSound, PTL

\* What all requests of the process share keeps its promises there: the adapter's tokens and
\* failures, the stall store's verdicts and evictions, and the cache's lookups.
THEOREM HostKeepsSharedState ==
  HostSpec => /\ [](RejectedTokenNotResent /\ FailuresClassified
                    /\ VerdictMatchesHistory /\ ReportedOncePerStay /\ LookupsMatchHistory)
              /\ EvictedForCause
  BY HostComposes, RejectedStaysUnsent, FailuresAreClassified, VerdictIsTheHistorys,
     ReportedOnce, LookupsMatch, EvictionHasCause, PTL

\* And a client is sent there what the upstream sent: as well-formed streams that keep the
\* content and the stop reason, and as messages that keep the conversation.
THEOREM HostKeepsAnswers ==
  HostSpec => /\ [](ContentSurvives /\ StopReasonSurvives /\ OutputHoldsStream
                    /\ ConversationSurvives)
              /\ ImplementsAnthropicWire /\ ImplementsResponsesWire
  BY HostComposes, ContentIsKept, ReasonIsKept, OutputIsHeld, ConversationIsKept,
     MessageIsAnthropicWire, StreamIsResponsesWire, PTL
=============================================================================
