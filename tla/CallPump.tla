------------------------------- MODULE CallPump -------------------------------
(***************************************************************************)
(* How the two ends of a call agree on the media of a fax: each end is a   *)
(* CallPump of faxe (sip.rs) above a dialog of PJSIP, the caller transmits *)
(* and the callee receives.  A call begins with audio or with T.38; in     *)
(* mode auto each end may offer T.38 by a re-INVITE, offers may collide,   *)
(* be refused, be challenged, be lost or come back with a body nobody can  *)
(* use, and an end that is refused falls back to audio.                    *)
(*                                                                         *)
(* Durations are left out: whatever waits for a time may happen at any     *)
(* time.  A session description is reduced to its kind of media.           *)
(*                                                                         *)
(* The specification has names of its own (CallInit, CallNext, CallSpec):  *)
(* CallProofs extends this module together with Media, which models the    *)
(* audio of the same call.                                                 *)
(***************************************************************************)
EXTENDS Naturals, Sequences

CONSTANTS MaxSurprises  \* bound: refusals, challenges, losses, broken bodies, timeouts

ASSUME CallPumpAssumption == MaxSurprises \in Nat

Ends  == {"caller", "callee"}
Modes == {"auto", "g711", "t38"}
Kinds == {"audio", "t38"}

VARIABLES
    mode,      \* request.mode of each end
    dialog,    \* the initial INVITE: where it is, and the kind it offers
    current,   \* Callbacks.current: the media PJSIP holds active
    events,    \* Callbacks.events: what step() has not yet drained
    pump,      \* the CallPump of each end
    offer,     \* a re-INVITE that has not reached the peer
    reply,     \* a final response that has not come back
    linger,    \* the last refused re-INVITE, until its transaction ends
    surprises

wire == <<dialog, offer, reply, linger, surprises>>
callVars == <<mode, current, events, pump, wire>>

Other(e) == CHOOSE p \in Ends : p # e

-----------------------------------------------------------------------------
(* Events of the SIP stack, attempts and states of the pump *)

Event(what, kind, number, code) ==
    [what |-> what, kind |-> kind, cseq |-> number, code |-> code]
Media(kind)          == Event("Media", kind, 0, 0)
MediaError           == Event("MediaError", "audio", 0, 0)
Connected            == Event("Connected", "audio", 0, 0)
Disconnected(code)   == Event("Disconnected", "audio", 0, code)
InviteStarted(n)     == Event("InviteStarted", "audio", n, 0)
InviteFinal(n, code) == Event("InviteFinal", "audio", n, code)

Attempt(at, kind, number) ==
    [at |-> at, kind |-> kind, cseq |-> number, cancelling |-> FALSE, ready |-> FALSE]
NotStarted == Attempt("NotStarted", "t38", 0)
Backoff    == Attempt("Backoff", "t38", 0)
Accepted   == Attempt("Accepted", "t38", 0)
Rejected   == Attempt("Rejected", "t38", 0)
Waiting(kind, number) == Attempt("Waiting", kind, number)

(* out is the request that a step of the pump sends; cseq numbers the      *)
(* re-INVITEs of the end; over says why the end is done with the call.     *)
Fresh ==
    [connected |-> FALSE, remote |-> "none", attempt |-> NotStarted, glares |-> 0,
     direct |-> FALSE, fax |-> "none", over |-> "no", cseq |-> 0, out |-> "none"]
Failed(why) == [Fresh EXCEPT !.over = why]

Nothing == [kind |-> "none", cseq |-> 0, code |-> 0]
Message(kind, number, code) == [kind |-> kind, cseq |-> number, code |-> code]

Alive(e)   == pump[e].over = "no"
Pending(e) == offer[e] # Nothing \/ reply[e] # Nothing
InitialKind(m) == IF m = "t38" THEN "t38" ELSE "audio"

Push(e, news) == events' = [events EXCEPT ![e] = @ \o news]
Surprise == surprises < MaxSurprises /\ surprises' = surprises + 1

CallInit ==
    /\ mode \in [Ends -> Modes]
    /\ dialog = [at |-> "invited", kind |-> InitialKind(mode["caller"])]
    /\ current = [e \in Ends |-> InitialKind(mode[e])]
    /\ events = [e \in Ends |-> <<>>]
    /\ pump = [e \in Ends |-> Fresh]
    /\ offer = [e \in Ends |-> Nothing]
    /\ reply = [e \in Ends |-> Nothing]
    /\ linger = [e \in Ends |-> Nothing]
    /\ surprises = 0

-----------------------------------------------------------------------------
(* The initial INVITE *)

Takes(e, kind) == mode[e] \in {"auto", IF kind = "t38" THEN "t38" ELSE "g711"}

AnswerCall ==
    /\ dialog.at = "invited" /\ Alive("callee")
    /\ Takes("callee", dialog.kind)
    /\ dialog' = [dialog EXCEPT !.at = "answered"]
    /\ current' = [current EXCEPT !["callee"] = dialog.kind]
    /\ Push("callee", <<Media(dialog.kind)>>)
    /\ UNCHANGED <<mode, pump, offer, reply, linger, surprises>>

(* The callee, or what is between, has no use for the media on offer. *)
RefuseCall ==
    /\ dialog.at = "invited"
    /\ \/ ~Takes("callee", dialog.kind) /\ UNCHANGED surprises
       \/ Surprise
    /\ dialog' = [dialog EXCEPT !.at = "refused"]
    /\ Push("caller", <<Disconnected(488)>>)
    /\ UNCHANGED <<mode, current, pump, offer, reply, linger>>

Answered ==
    /\ dialog.at = "answered" /\ Alive("caller")
    /\ dialog' = [dialog EXCEPT !.at = "acknowledged"]
    /\ current' = [current EXCEPT !["caller"] = dialog.kind]
    /\ Push("caller", <<Media(dialog.kind), Connected>>)
    /\ UNCHANGED <<mode, pump, offer, reply, linger, surprises>>

Acknowledged ==
    /\ dialog.at = "acknowledged" /\ Alive("callee")
    /\ dialog' = [dialog EXCEPT !.at = "confirmed"]
    /\ Push("callee", <<Connected>>)
    /\ UNCHANGED <<mode, current, pump, offer, reply, linger, surprises>>

-----------------------------------------------------------------------------
(* Re-INVITEs on their way *)

(* switch_allowed is set with mode auto and cleared when a terminal starts. *)
SwitchAllowed(e) == mode[e] = "auto" /\ pump[e].fax = "none"

(* on_offer: what an end takes of a re-INVITE. *)
Allows(e, kind) == Takes(e, kind) /\ (SwitchAllowed(e) \/ current[e] = kind)

Replies(e, kind, code) ==
    /\ offer' = [offer EXCEPT ![e] = Nothing]
    /\ reply' = [reply EXCEPT ![e] = Message(kind, offer[e].cseq, code)]

Arrives(e) == offer[e] # Nothing /\ dialog.at = "confirmed" /\ Alive(Other(e))

(* PJSIP refuses an offer while one of its own is pending. *)
Collide(e) ==
    /\ Arrives(e)
    /\ Pending(Other(e))
    /\ Replies(e, "none", 491)
    /\ UNCHANGED <<mode, current, events, pump, dialog, linger, surprises>>

(* The peer switches as it answers.  The body may be of no use when it is  *)
(* back.                                                                   *)
AcceptOffer(e) ==
    LET p == Other(e) kind == offer[e].kind IN
    /\ Arrives(e)
    /\ ~Pending(p)
    /\ Allows(p, kind)
    /\ current' = [current EXCEPT ![p] = kind]
    /\ Push(p, <<Media(kind)>>)
    /\ \/ Replies(e, kind, 200) /\ UNCHANGED surprises
       \/ Replies(e, "none", 200) /\ Surprise
    /\ UNCHANGED <<mode, pump, dialog, linger>>

RefuseOffer(e) ==
    /\ Arrives(e)
    /\ ~Pending(Other(e))
    /\ ~Allows(Other(e), offer[e].kind)
    /\ Replies(e, "none", 488)
    /\ UNCHANGED <<mode, current, events, pump, dialog, linger, surprises>>

(* What is between the ends refuses the offer, answers it with a body of   *)
(* no use, or, once it was cancelled, ends it.                             *)
Intercept(e) ==
    /\ offer[e] # Nothing
    /\ \/ Surprise /\ \E code \in {200, 488} : Replies(e, "none", code)
       \/ pump[e].attempt.cancelling /\ Replies(e, "none", 487) /\ UNCHANGED surprises
    /\ UNCHANGED <<mode, current, events, pump, dialog, linger>>

(* 401: PJSIP repeats the offer with credentials and a number of its own.  *)
Challenge(e) ==
    LET n == pump[e].cseq + 1 IN
    /\ offer[e] # Nothing
    /\ Surprise
    /\ pump' = [pump EXCEPT ![e].cseq = n]
    /\ offer' = [offer EXCEPT ![e].cseq = n]
    /\ Push(e, <<InviteStarted(n), InviteFinal(offer[e].cseq, 401)>>)
    /\ UNCHANGED <<mode, current, dialog, reply, linger>>

(* The final response: on_media comes before on_transaction. *)
Final(e) ==
    LET r == reply[e] IN
    /\ r # Nothing
    /\ reply' = [reply EXCEPT ![e] = Nothing]
    /\ IF r.code = 200
         THEN /\ Push(e, <<IF r.kind = "none" THEN MediaError ELSE Media(r.kind),
                           InviteFinal(r.cseq, 200)>>)
              /\ current' = [current EXCEPT ![e] = IF r.kind = "none" THEN @ ELSE r.kind]
              /\ UNCHANGED linger
         ELSE /\ Push(e, <<InviteFinal(r.cseq, r.code)>>)
              /\ linger' = [linger EXCEPT ![e] = r]
              /\ UNCHANGED current
    /\ UNCHANGED <<mode, pump, dialog, offer, surprises>>

(* A refused transaction is reported again when its timer ends it. *)
Terminated(e) ==
    /\ linger[e] # Nothing
    /\ linger' = [linger EXCEPT ![e] = Nothing]
    /\ Push(e, <<InviteFinal(linger[e].cseq, linger[e].code)>>)
    /\ UNCHANGED <<mode, current, pump, dialog, offer, reply, surprises>>

-----------------------------------------------------------------------------
(* CallPump::step: each event changes the pump in turn *)

(* Sip::reinvite *)
Reinvite(p, kind) ==
    [p EXCEPT !.cseq = @ + 1, !.out = kind, !.attempt = Waiting(kind, p.cseq + 1)]

(* A caller in mode auto whose audio was refused calls again with T.38. *)
OnDisconnected(p, m) ==
    IF m = "auto" /\ ~p.connected /\ ~p.direct
      THEN [p EXCEPT !.direct = TRUE, !.remote = "none", !.out = "invite"]
      ELSE Failed("refused")

OnMedia(p, kind) ==
    IF p.remote # kind /\ p.fax # "none" THEN Failed("changed")
    ELSE [p EXCEPT !.remote = kind,
                   !.attempt.ready = p.attempt.at = "Waiting" /\ kind = p.attempt.kind]

OnMediaError(p) ==
    IF p.attempt.at = "Waiting" THEN [p EXCEPT !.attempt.ready = FALSE] ELSE Failed("media")

(* Mutant: the number of a challenged offer is not taken over. *)
OnInviteStartedIgnored(p, n) == p

OnInviteStarted(p, n) ==
    IF p.attempt.at = "Waiting" THEN [p EXCEPT !.attempt.cseq = n] ELSE p

(* The response must be final and belong to the offer that is waited for.  *)
Concerns(a, n, code) == a.at = "Waiting" /\ a.cseq = n /\ code # 401

OnInviteFinal(p, n, code) ==
    LET a == p.attempt t38 == a.kind = "t38" settled == code = 200 /\ a.ready IN
    IF ~Concerns(a, n, code) THEN p
    ELSE IF t38 /\ code = 491 /\ p.glares < 2
      THEN [p EXCEPT !.glares = @ + 1, !.attempt = Backoff]
    ELSE IF t38 /\ code >= 300 /\ p.remote = "audio" THEN [p EXCEPT !.attempt = Rejected]
    ELSE IF settled THEN [p EXCEPT !.attempt = IF t38 THEN Accepted ELSE Rejected]
    ELSE IF t38 THEN Reinvite(p, "audio")
    ELSE Failed("unrestored")

Consume(p, event, m) ==
    IF p.over # "no" THEN p ELSE
    CASE event.what = "Connected"     -> [p EXCEPT !.connected = TRUE]
      [] event.what = "Disconnected"  -> OnDisconnected(p, m)
      [] event.what = "Media"         -> OnMedia(p, event.kind)
      [] event.what = "MediaError"    -> OnMediaError(p)
      [] event.what = "InviteStarted" -> OnInviteStarted(p, event.cseq)
      [] event.what = "InviteFinal"   -> OnInviteFinal(p, event.cseq, event.code)

(* Mutant: T.38 starts although the restoration of audio is still pending. *)
DecideWhileWaiting(e, p) ==
    IF ~p.connected \/ p.fax # "none" THEN p
    ELSE IF p.remote = "t38" THEN [p EXCEPT !.fax = "t38"]
    ELSE IF p.remote # "audio" THEN p
    ELSE IF mode[e] = "t38" THEN Failed("no t38")
    ELSE IF mode[e] = "g711" \/ p.attempt.at = "Rejected" THEN [p EXCEPT !.fax = "audio"]
    ELSE IF e = "callee" /\ p.attempt.at = "NotStarted" THEN Reinvite(p, "t38")
    ELSE p

(* Mutant: nothing is done after a refusal. *)
DecideWithoutFallback(e, p) ==
    IF ~p.connected \/ p.fax # "none" THEN p
    ELSE IF p.remote = "t38" /\ p.attempt.at # "Waiting" THEN [p EXCEPT !.fax = "t38"]
    ELSE IF p.remote # "audio" THEN p
    ELSE IF mode[e] = "t38" THEN Failed("no t38")
    ELSE IF mode[e] = "g711" THEN [p EXCEPT !.fax = "audio"]
    ELSE IF e = "callee" /\ p.attempt.at = "NotStarted" THEN Reinvite(p, "t38")
    ELSE p

(* What the pump does at once when its events are drained: a terminal      *)
(* starts, a callee offers T.38, or T.38 was required and is not to be had. *)
Decide(e, p) ==
    IF ~p.connected \/ p.fax # "none" THEN p
    ELSE IF p.remote = "t38" /\ p.attempt.at # "Waiting" THEN [p EXCEPT !.fax = "t38"]
    ELSE IF p.remote # "audio" THEN p
    ELSE IF mode[e] = "t38" THEN Failed("no t38")
    ELSE IF mode[e] = "g711" \/ p.attempt.at = "Rejected" THEN [p EXCEPT !.fax = "audio"]
    ELSE IF e = "callee" /\ p.attempt.at = "NotStarted" THEN Reinvite(p, "t38")
    ELSE p

(* The pump of e becomes p, and what it sends is on its way.  An end that  *)
(* is done with the call leaves nothing behind.                            *)
Becomes(e, p) ==
    /\ pump' = [pump EXCEPT ![e] = [p EXCEPT !.out = "none"]]
    /\ offer' = [offer EXCEPT ![e] =
                    IF p.over # "no" THEN Nothing
                    ELSE IF p.out \in Kinds THEN Message(p.out, p.cseq, 0)
                    ELSE @]
    /\ reply' = [reply EXCEPT ![e] = IF p.over # "no" THEN Nothing ELSE @]
    /\ linger' = [linger EXCEPT ![e] = IF p.over # "no" THEN Nothing ELSE @]
    /\ IF p.out = "invite"
         THEN dialog' = [at |-> "invited", kind |-> "t38"]
              /\ current' = [current EXCEPT ![e] = "t38"]
         ELSE UNCHANGED <<dialog, current>>
    /\ events' = [events EXCEPT ![e] = <<>>]
    /\ UNCHANGED mode

(* The pump p when it has consumed a batch of events, in order. *)
Consumed(p, batch, m) ==
    LET after[i \in 0 .. Len(batch)] ==
            IF i = 0 THEN p
            ELSE CHOOSE q \in {Consume(r, batch[i], m) : r \in {after[i - 1]}} : TRUE
    IN after[Len(batch)]

Step(e) ==
    /\ Alive(e)
    /\ events[e] # <<>>
    /\ \E p \in {Consumed(pump[e], events[e], mode[e])} : \E q \in {Decide(e, p)} : Becomes(e, q)
    /\ UNCHANGED surprises

(* Steps of a pump that has no events, when a time has come. *)
Idle(e) == Alive(e) /\ pump[e].connected /\ events[e] = <<>>

(* 3.5 s after the answer, or when the backoff is over. *)
OfferT38(e) ==
    LET p == pump[e] IN
    /\ Idle(e)
    /\ p.fax = "none" /\ p.remote = "audio" /\ mode[e] = "auto"
    /\ p.attempt.at \in {"NotStarted", "Backoff"}
    /\ Becomes(e, Reinvite(p, "t38"))
    /\ UNCHANGED surprises

(* After 5 s the offer is cancelled.  It may have been answered already,   *)
(* but cancel_reinvite must find its transaction.                          *)
CancelReinvite(e) ==
    LET p == pump[e]
        found == Pending(e) /\ p.attempt.cseq \in {offer[e].cseq, reply[e].cseq}
    IN
    /\ Idle(e)
    /\ p.attempt.at = "Waiting" /\ ~p.attempt.cancelling
    /\ Surprise
    /\ Becomes(e, IF found THEN [p EXCEPT !.attempt.cancelling = TRUE]
                  ELSE Failed("nothing to cancel"))

(* After 38 s the call is given up. *)
Unsettled(e) ==
    /\ Idle(e)
    /\ pump[e].attempt.cancelling
    /\ Becomes(e, Failed("unsettled"))
    /\ UNCHANGED surprises

(* The user cancels, the fax is complete, the network is silent for long:  *)
(* the end hangs up.                                                       *)
HangUp(e) ==
    /\ Alive(e)
    /\ Becomes(e, Failed("done"))
    /\ UNCHANGED surprises

(* The other end's BYE, or an answer that there is no such call. *)
PeerHangup(e) ==
    /\ Alive(e) /\ ~Alive(Other(e))
    /\ Becomes(e, Failed("hangup"))
    /\ UNCHANGED surprises

-----------------------------------------------------------------------------
Network(e) ==
    \/ Collide(e)
    \/ AcceptOffer(e)
    \/ RefuseOffer(e)
    \/ Final(e)

CallNext ==
    \/ AnswerCall \/ RefuseCall \/ Answered \/ Acknowledged
    \/ \E e \in Ends :
          \/ Network(e)
          \/ Intercept(e)
          \/ Challenge(e)
          \/ Terminated(e)
          \/ Step(e)
          \/ OfferT38(e)
          \/ CancelReinvite(e)
          \/ Unsettled(e)
          \/ HangUp(e)
          \/ PeerHangup(e)

CallSpec == CallInit /\ [][CallNext]_callVars

(* The network delivers, step() is called at least every 20 ms, a backoff  *)
(* and the wait for a cancelled offer come to an end.                      *)
Fairness ==
    /\ WF_callVars(Answered) /\ WF_callVars(Acknowledged)
    /\ \A e \in Ends :
          /\ WF_callVars(Network(e))
          /\ WF_callVars(Step(e))
          /\ WF_callVars(OfferT38(e))
          /\ WF_callVars(Unsettled(e))
          /\ WF_callVars(PeerHangup(e))

FairSpec == CallSpec /\ Fairness

-----------------------------------------------------------------------------
(* Properties *)

(* The shape of every variable; an end makes at most three offers of T.38  *)
(* and one of audio, challenges apart.                                     *)
CallTypeOK ==
    /\ mode \in [Ends -> Modes]
    /\ dialog \in [at : {"invited", "refused", "answered", "acknowledged", "confirmed"}, kind : Kinds]
    /\ current \in [Ends -> Kinds]
    /\ \A e \in Ends :
          /\ pump[e].remote \in Kinds \cup {"none"}
          /\ pump[e].fax \in Kinds \cup {"none"}
          /\ pump[e].glares \in 0 .. 2
          /\ pump[e].cseq <= 4 + surprises
          /\ pump[e].out = "none"
          /\ offer[e].cseq <= pump[e].cseq /\ reply[e].cseq <= pump[e].cseq
    /\ surprises \in 0 .. MaxSurprises

Fax(e) == pump[e].fax

(* Once an end has begun its fax, nothing the other does changes the media *)
(* under it: "Peer changed media after fax transmission started" is never  *)
(* what ends a call between two ends of faxe.                              *)
NeverChanged == \A e \in Ends : pump[e].over # "changed"

(* Two ends in mode auto fall back to audio only if the network interfered *)
(* or their offers collided three times.                                   *)
AudioIsLastResort ==
    \A e \in Ends :
        (\A p \in Ends : mode[p] = "auto" /\ Alive(p)) /\ surprises = 0 /\ Fax(e) = "audio"
            => \E p \in Ends : pump[p].glares = 2

(* The two ends never run a fax over different media, however their        *)
(* offers collide, are refused on the way, cancelled, or come back broken, *)
(* nor change it under each other, nor give up T.38 without need.          *)
SameMedia ==
    /\ CallTypeOK
    /\ Fax("caller") # "none" /\ Fax("callee") # "none" => Fax("caller") = Fax("callee")
    /\ NeverChanged /\ AudioIsLastResort

(* An offer that is late is always one that PJSIP still knows, although it *)
(* numbers a challenged offer anew behind the pump's back: a call never    *)
(* fails with "No matching pending re-INVITE to cancel".                   *)
CancelFindsOffer == \A e \in Ends : pump[e].over # "nothing to cancel"

(* A call that was answered gets its fax, or ends, without waiting for the *)
(* limit of 30 minutes or for the user.                                    *)
NegotiationEnds ==
    \A e \in Ends : pump[e].connected ~> Fax(e) # "none" \/ ~Alive(e)

(* The same, but for the one state that step() has no way out of: the      *)
(* offer of T.38 was accepted, and before the next pass of the pump the    *)
(* peer went back to audio.                                                *)
Undone(e) == pump[e].attempt.at = "Accepted" /\ pump[e].remote = "audio"
NegotiationEndsUnlessUndone ==
    \A e \in Ends : pump[e].connected ~> Fax(e) # "none" \/ ~Alive(e) \/ Undone(e)
=============================================================================
