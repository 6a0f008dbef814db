------------------------------ MODULE WebProof ------------------------------
(***************************************************************************)
(* Proofs about the web client (MCWeb.tla and the components it composes). *)
(* A part for each: what must hold of the requests in flight for its       *)
(* property to be inductive, that each of its actions keeps that, and at   *)
(* the end the theorems about the whole client, whose steps are steps of   *)
(* one component while the others rest.                                    *)
(***************************************************************************)
EXTENDS MCWeb, OrderedProof, FiniteSetTheorems, SequenceTheorems, TLAPS

LOCAL INSTANCE SequencesExt
LOCAL INSTANCE FiniteSetsExt

-----------------------------------------------------------------------------
(* Requests in the order in which they were sent. *)

\* Leaving one out keeps the others, in their order.
LEMMA RemoveOne ==
  ASSUME NEW S, NEW s \in Seq(S), NEW k \in DOMAIN s
  PROVE  /\ RemoveAt(s, k) \in Seq(S)
         /\ Len(RemoveAt(s, k)) = Len(s) - 1
         /\ \A i \in 1 .. Len(s) - 1 : RemoveAt(s, k)[i] = IF i < k THEN s[i] ELSE s[i + 1]
<1> DEFINE a == SubSeq(s, 1, k - 1)
           b == SubSeq(s, k + 1, Len(s))
<1>1. Len(s) \in Nat /\ k \in 1 .. Len(s) /\ \A i \in 1 .. Len(s) : s[i] \in S
  BY LenProperties
<1>2. /\ a \in Seq(S) /\ Len(a) = k - 1
      /\ \A i \in 1 .. k - 1 : a[i] = s[i]
  BY <1>1, SubSeqProperties
<1>3. /\ b \in Seq(S) /\ Len(b) = Len(s) - k
      /\ \A i \in 1 .. Len(s) - k : b[i] = s[k + i]
  BY <1>1, SubSeqProperties
<1>4. RemoveAt(s, k) = a \o b
  BY DEF RemoveAt
<1> HIDE DEF a, b
<1>5. /\ a \o b \in Seq(S) /\ Len(a \o b) = Len(s) - 1
      /\ \A i \in 1 .. Len(s) - 1 : (a \o b)[i] = IF i <= k - 1 THEN a[i] ELSE b[i - (k - 1)]
  <2>1. /\ a \o b \in Seq(S) /\ Len(a \o b) = Len(a) + Len(b)
        /\ \A i \in 1 .. Len(a) + Len(b) :
             (a \o b)[i] = IF i <= Len(a) THEN a[i] ELSE b[i - Len(a)]
    BY <1>2, <1>3, ConcatProperties
  <2>2. Len(a) = k - 1 /\ Len(a) + Len(b) = Len(s) - 1
    BY <1>1, <1>2, <1>3
  <2> QED  BY <2>1, <2>2
<1>6. ASSUME NEW i \in 1 .. Len(s) - 1
      PROVE  (a \o b)[i] = IF i < k THEN s[i] ELSE s[i + 1]
  <2>1. CASE i < k
    <3>1. i <= k - 1 /\ i \in 1 .. k - 1
      BY <1>1, <2>1
    <3> QED  BY <1>2, <1>5, <2>1, <3>1
  <2>2. CASE ~(i < k)
    <3>1. ~(i <= k - 1) /\ i - (k - 1) \in 1 .. Len(s) - k /\ k + (i - (k - 1)) = i + 1
      BY <1>1, <2>2
    <3> QED  BY <1>3, <1>5, <2>2, <3>1
  <2> QED  BY <2>1, <2>2
<1> QED  BY <1>4, <1>5, <1>6

\* So each of the others is still there, once.
LEMMA OthersRemain ==
  ASSUME NEW S, NEW s \in Seq(S), NEW k \in DOMAIN s
  PROVE  /\ \A i \in DOMAIN RemoveAt(s, k) :
              \E j \in DOMAIN s : /\ j # k /\ RemoveAt(s, k)[i] = s[j]
                                  /\ j = IF i < k THEN i ELSE i + 1
         /\ \A j \in DOMAIN s \ {k} : \E i \in DOMAIN RemoveAt(s, k) : RemoveAt(s, k)[i] = s[j]
<1> DEFINE rest == RemoveAt(s, k)
<1>1. /\ rest \in Seq(S) /\ Len(rest) = Len(s) - 1
      /\ \A i \in 1 .. Len(s) - 1 : rest[i] = IF i < k THEN s[i] ELSE s[i + 1]
  BY RemoveOne
<1> HIDE DEF rest
<1>2. /\ DOMAIN rest = 1 .. Len(s) - 1 /\ DOMAIN s = 1 .. Len(s) /\ Len(s) \in Nat
      /\ k \in 1 .. Len(s)
  BY <1>1, LenProperties
<1>3. ASSUME NEW i \in DOMAIN rest
      PROVE  \E j \in DOMAIN s : /\ j # k /\ rest[i] = s[j]
                                 /\ j = IF i < k THEN i ELSE i + 1
  <2>1. (IF i < k THEN i ELSE i + 1) \in DOMAIN s \ {k}
    BY <1>2
  <2>2. rest[i] = s[IF i < k THEN i ELSE i + 1]
    BY <1>1, <1>2
  <2> QED  BY <2>1, <2>2
<1>4. ASSUME NEW j \in DOMAIN s \ {k}
      PROVE  \E i \in DOMAIN rest : rest[i] = s[j]
  <2>1. (IF j < k THEN j ELSE j - 1) \in DOMAIN rest
    BY <1>2
  <2>2. rest[IF j < k THEN j ELSE j - 1] = s[j]
    BY <1>1, <1>2
  <2> QED  BY <2>1, <2>2
<1>5. rest = RemoveAt(s, k)
  BY DEF rest
<1> QED  BY <1>3, <1>4, <1>5

-----------------------------------------------------------------------------
(* The timeline of the chat on screen. *)

\* A load that may still be shown is of the chat on screen.
RequestFits(r, c) == r \in Request /\ (r.kind = "load" /\ r.current => r.of = c)

PaneMore == /\ stored \in [Channels -> 0 .. MaxStored]
            /\ active \in Channels /\ syncs \subseteq Channels
            /\ DOMAIN pane = {"of", "upto", "status", "by"}
            /\ requests \in Seq(Request)
            /\ \A k \in DOMAIN requests : RequestFits(requests[k], active)
            /\ LoadsStayInTheirChat

\* Sending one more.
LEMMA MoreRequests ==
  ASSUME NEW s \in Seq(Request), NEW r \in Request, NEW c,
         \A k \in DOMAIN s : RequestFits(s[k], c), RequestFits(r, c)
  PROVE  /\ Append(s, r) \in Seq(Request)
         /\ \A k \in DOMAIN Append(s, r) : RequestFits(Append(s, r)[k], c)
<1>1. /\ Append(s, r) \in Seq(Request) /\ Len(Append(s, r)) = Len(s) + 1
      /\ \A i \in 1 .. Len(s) : Append(s, r)[i] = s[i]
      /\ Append(s, r)[Len(s) + 1] = r
  BY AppendProperties
<1>2. DOMAIN Append(s, r) = 1 .. Len(s) + 1 /\ DOMAIN s = 1 .. Len(s) /\ Len(s) \in Nat
  BY <1>1, LenProperties
<1>3. \A k \in 1 .. Len(s) + 1 : k \in 1 .. Len(s) \/ k = Len(s) + 1
  BY <1>2
<1> QED  BY <1>1, <1>2, <1>3

LEMMA SentFits ==
  ASSUME NEW c \in Channels, NEW kind \in {"load", "refresh"}
  PROVE  Sent(c, kind) \in Request /\ Sent(c, kind).of = c /\ Sent(c, kind).kind = kind
<1>1. 0 \in 0 .. MaxStored
  BY WebAssumption
<1> QED  BY <1>1 DEF Sent, Request

LEMMA RefreshKept ==
  ASSUME PaneMore, NEW c \in Channels, Refresh(c), UNCHANGED <<stored, active>>,
         syncs' \subseteq Channels
  PROVE  PaneMore'
<1> DEFINE r == Sent(c, "refresh")
<1>1. r \in Request /\ RequestFits(r, active)
  BY SentFits DEF RequestFits
<1>2. requests' = Append(requests, r)
      /\ DOMAIN pane' = {"of", "upto", "status", "by"} /\ pane'.status = "loading"
  BY DEF Refresh, PaneMore
<1> HIDE DEF r
<1>3. requests' \in Seq(Request) /\ \A k \in DOMAIN requests' : RequestFits(requests'[k], active)
  BY <1>1, <1>2, MoreRequests DEF PaneMore
<1> QED  BY <1>2, <1>3 DEF PaneMore, LoadsStayInTheirChat

LEMMA SelectKept == ASSUME PaneMore, NEW c \in Channels, Select(c) PROVE PaneMore'
<1> DEFINE r == Sent(c, "load")
           s == [k \in DOMAIN requests |-> [requests[k] EXCEPT !.current = FALSE]]
<1>1. r \in Request /\ RequestFits(r, c)
  BY SentFits DEF RequestFits
<1>2. /\ requests' = Append(s, r) /\ active' = c
      /\ DOMAIN pane' = {"of", "upto", "status", "by"} /\ pane'.status = "loading"
      /\ UNCHANGED <<stored, syncs>>
  BY DEF Select, Load, PaneMore
<1>3. ASSUME NEW k \in DOMAIN requests
      PROVE  s[k] \in Request /\ RequestFits(s[k], c)
  <2>1. requests[k] \in Request
    BY ElementOfSeq, LenProperties DEF PaneMore
  <2> QED  BY <2>1 DEF Request, RequestFits
<1>4. Len(requests) \in Nat /\ DOMAIN requests = 1 .. Len(requests) /\ DOMAIN s = DOMAIN requests
  BY LenProperties DEF PaneMore
<1> HIDE DEF r, s
<1>5. s \in Seq(Request)
  <2>1. s \in [1 .. Len(requests) -> Request]
    <3>1. s = [k \in 1 .. Len(requests) |-> s[k]]
      BY <1>4 DEF s
    <3> QED  BY <1>3, <1>4, <3>1
  <2> QED  BY <1>4, <2>1
<1>6. requests' \in Seq(Request) /\ \A k \in DOMAIN requests' : RequestFits(requests'[k], c)
  BY <1>1, <1>2, <1>3, <1>4, <1>5, MoreRequests
<1> QED  BY <1>2, <1>6 DEF PaneMore, LoadsStayInTheirChat

LEMMA ReadTimelineKept ==
  ASSUME PaneMore, NEW k \in DOMAIN requests, ReadTimeline(k)
  PROVE  PaneMore'
<1>0. requests[k] \in Request /\ requests \in [1 .. Len(requests) -> Request]
      /\ Len(requests) \in Nat /\ DOMAIN requests = 1 .. Len(requests)
  BY ElementOfSeq, LenProperties DEF PaneMore
<1> DEFINE r == [requests[k] EXCEPT !.answered = TRUE, !.upto = stored[requests[k].of]]
<1>1. r \in Request /\ RequestFits(r, active)
  BY <1>0 DEF PaneMore, Request, RequestFits
<1>2. requests' = [requests EXCEPT ![k] = r] /\ UNCHANGED <<stored, active, pane, syncs>>
  BY <1>0 DEF ReadTimeline
<1> HIDE DEF r
<1>3. requests' \in [1 .. Len(requests) -> Request]
  BY <1>0, <1>1, <1>2
<1>4. requests' \in Seq(Request) /\ \A j \in DOMAIN requests' : RequestFits(requests'[j], active)
  BY <1>0, <1>1, <1>2, <1>3 DEF PaneMore
<1> QED  BY <1>2, <1>4 DEF PaneMore, LoadsStayInTheirChat

LEMMA TimelineKept ==
  ASSUME PaneMore, NEW k \in DOMAIN requests, TimelineAnswer(k) \/ TimelineFails(k)
  PROVE  PaneMore'
<1>1. requests' = RemoveAt(requests, k) /\ UNCHANGED <<stored, active, syncs>>
  BY DEF TimelineAnswer, TimelineFails
<1>2. /\ requests' \in Seq(Request)
      /\ \A i \in DOMAIN requests' : \E j \in DOMAIN requests : requests'[i] = requests[j]
  BY <1>1, RemoveOne, OthersRemain DEF PaneMore
<1>3. \A i \in DOMAIN requests' : RequestFits(requests'[i], active)
  BY <1>2 DEF PaneMore
<1>4. DOMAIN pane' = {"of", "upto", "status", "by"}
  BY DEF PaneMore, TimelineAnswer, TimelineFails
<1>5. LoadsStayInTheirChat'
  BY <1>1 DEF PaneMore, RequestFits, LoadsStayInTheirChat, TimelineAnswer, TimelineFails, Applies
<1> QED  BY <1>1, <1>2, <1>3, <1>4, <1>5 DEF PaneMore

LEMMA WebInitHolds == WebInit => PaneMore
<1> SUFFICES ASSUME WebInit PROVE PaneMore
  OBVIOUS
<1> DEFINE r == Sent(active, "load")
<1>0. 0 \in 0 .. MaxStored
  BY WebAssumption
<1>1. r \in Request /\ RequestFits(r, active)
  BY SentFits DEF WebInit, RequestFits
<1>2. requests = <<r>>
  BY DEF WebInit
<1> HIDE DEF r
<1>3. requests \in Seq(Request) /\ \A k \in DOMAIN requests : RequestFits(requests[k], active)
  BY <1>1, <1>2
<1> QED  BY <1>0, <1>3 DEF WebInit, PaneMore, LoadsStayInTheirChat

LEMMA WebStep == PaneMore /\ [WebNext]_webVars => PaneMore'
<1> SUFFICES ASSUME PaneMore, [WebNext]_webVars PROVE PaneMore'
  OBVIOUS
<1>1. CASE Poll \/ Reconcile \/ Connect \/ TimerFires
  BY <1>1, RefreshKept DEF PaneMore, Poll, Reconcile, Connect, TimerFires
<1>2. ASSUME NEW c \in Channels, SyncAnswer(c) PROVE PaneMore'
  BY <1>2, RefreshKept DEF PaneMore, SyncAnswer
<1>3. ASSUME NEW c \in Channels, StoreMessage(c) PROVE PaneMore'
  <2>1. stored' \in [Channels -> 0 .. MaxStored]
    BY <1>3, WebAssumption DEF PaneMore, StoreMessage
  <2> QED  BY <1>3, <2>1 DEF PaneMore, LoadsStayInTheirChat, StoreMessage
<1>4. ASSUME NEW c \in Channels, SyncFails(c) \/ DeliverEvent(c) PROVE PaneMore'
  BY <1>4 DEF PaneMore, LoadsStayInTheirChat, SyncFails, DeliverEvent
<1>5. CASE AutoSync \/ MenuRefresh \/ Join \/ LoseRealtime \/ UNCHANGED webVars
  BY <1>5 DEF PaneMore, LoadsStayInTheirChat, AutoSync, MenuRefresh, Join, LoseRealtime, webVars
<1> QED  BY <1>1, <1>2, <1>3, <1>4, <1>5, SelectKept, ReadTimelineKept, TimelineKept DEF WebNext

-----------------------------------------------------------------------------
(* What an agent writes. *)

TextOf(S) == [for : S, as : Modes, taken : BOOLEAN]
TextsOK == (\E S : texts \in Seq(TextOf(S))) /\ Len(texts) <= MaxTexts

\* A text the API took no more often than the agent saw an error for it may be posted.
Unposted(t) == posted[t] <= errors[t]
CountsOK == /\ posted \in [1 .. MaxTexts -> Nat] /\ errors \in [1 .. MaxTexts -> Nat]
            /\ \A t \in 1 .. MaxTexts : /\ t > Len(texts) => posted[t] = 0
                                        /\ posted[t] <= 1 + errors[t]

\* The composer, whose text is posted by its submission alone.
WritingOK ==
  /\ mode \in Modes /\ body \in 0 .. Len(texts)
  /\ DOMAIN submission = {"to", "text", "file", "as", "served"}
  /\ submission.text \in 0 .. Len(texts) /\ submission.as \in Modes
  /\ submission.text # 0 /\ ~submission.served => Unposted(submission.text)
  /\ body # 0 /\ ~(submission.served /\ submission.text = body) => Unposted(body)

\* The dialogs, of which each has a text of its own, and at most one command for it.
DialogsOK ==
  /\ dialogs \in Nat /\ DOMAIN dialog = {"n", "text", "file", "submitting"}
  /\ dialog.n \in 0 .. dialogs /\ dialog.text \in 0 .. Len(texts)
  /\ dialog = NoDialog \/ (dialog.n # 0 /\ dialog.text # 0)
  /\ \A d \in creating : /\ DOMAIN d = {"n", "text", "file", "step"}
                         /\ d.n \in 1 .. dialogs /\ d.text \in 1 .. Len(texts)
                         /\ d.step = "create" => Unposted(d.text)
                         /\ dialog.n = d.n => dialog.text = d.text
  /\ \A d, e \in creating : d.text = e.text => d = e
  /\ dialog.text # 0 /\ ~dialog.submitting =>
       Unposted(dialog.text) /\ \A d \in creating : d.text # dialog.text

\* No text is in both.
Apart == \A t \in {body, submission.text} \ {0} :
           t # dialog.text /\ \A d \in creating : d.text # t

\* A text that would go out as a reply is one, or was taken along.
Repliable(t, m) == m = "reply" /\ t # 0 => texts[t].as = "reply" \/ texts[t].taken
NotesOK == Repliable(body, mode) /\ Repliable(submission.text, submission.as)

ComposerMore == TextsOK /\ CountsOK /\ WritingOK /\ DialogsOK /\ Apart /\ NotesOK

LEMMA TextsCounted ==
  TextsOK => /\ Len(texts) \in 0 .. MaxTexts /\ DOMAIN texts = 1 .. Len(texts)
             /\ \A t \in 0 .. Len(texts) : t # 0 => t \in 1 .. MaxTexts /\ t \in DOMAIN texts
             /\ MaxTexts \in Nat
<1> SUFFICES ASSUME TextsOK
             PROVE  /\ Len(texts) \in 0 .. MaxTexts /\ DOMAIN texts = 1 .. Len(texts)
                    /\ \A t \in 0 .. Len(texts) : t # 0 => t \in 1 .. MaxTexts /\ t \in DOMAIN texts
                    /\ MaxTexts \in Nat
  OBVIOUS
<1>1. PICK S : texts \in Seq(TextOf(S))
  BY DEF TextsOK
<1>2. Len(texts) \in Nat /\ DOMAIN texts = 1 .. Len(texts)
  BY <1>1, LenProperties
<1>3. MaxTexts \in Nat
  BY ComposerAssumption
<1> QED  BY <1>2, <1>3 DEF TextsOK

LEMMA ComposerMoreImplies == ComposerMore => RepeatsFollowErrors
<1> SUFFICES ASSUME ComposerMore, NEW t \in DOMAIN texts PROVE posted[t] <= 1 + errors[t]
  BY DEF RepeatsFollowErrors
<1>1. t \in 1 .. MaxTexts
  BY TextsCounted DEF ComposerMore
<1> QED  BY <1>1 DEF ComposerMore, CountsOK

\* A text that comes into being was never posted, and is nobody's.
LEMMA TextAdded ==
  ASSUME TextsOK, CountsOK, NEW c, NEW as \in Modes, Text(c, as)
  PROVE  /\ TextsOK' /\ Len(texts') = Len(texts) + 1 /\ NewText = Len(texts')
         /\ NewText \in 1 .. MaxTexts /\ Unposted(NewText)
         /\ \A t \in 1 .. Len(texts) : texts'[t] = texts[t]
         /\ texts'[NewText].as = as
<1>1. PICK S : texts \in Seq(TextOf(S))
  BY DEF TextsOK
<1> DEFINE T == S \cup {c}
           r == [for |-> c, as |-> as, taken |-> FALSE]
<1>2. r \in TextOf(T) /\ r.as = as /\ TextOf(S) \subseteq TextOf(T)
  BY DEF TextOf
<1>3. texts' = Append(texts, r) /\ Len(texts) < MaxTexts
  BY DEF Text
<1>4. Len(texts) \in 0 .. MaxTexts /\ DOMAIN texts = 1 .. Len(texts) /\ MaxTexts \in Nat
  BY TextsCounted
<1> HIDE DEF T, r
<1>5. texts \in Seq(TextOf(T))
  <2>1. \A i \in 1 .. Len(texts) : texts[i] \in TextOf(T)
    BY <1>1, <1>2, <1>4, ElementOfSeq
  <2> QED  BY <1>1, <1>4, <2>1, LenProperties
<1>6. /\ texts' \in Seq(TextOf(T)) /\ Len(texts') = Len(texts) + 1
      /\ \A i \in 1 .. Len(texts) : texts'[i] = texts[i]
      /\ texts'[Len(texts) + 1] = r
  BY <1>2, <1>3, <1>5, AppendProperties
<1>7. Len(texts) + 1 \in 1 .. MaxTexts /\ Len(texts) + 1 > Len(texts)
  BY <1>3, <1>4
<1>8. Unposted(NewText)
  BY <1>7 DEF CountsOK, Unposted, NewText
<1>9. TextsOK'
  BY <1>6, <1>7 DEF TextsOK
<1> QED  BY <1>2, <1>6, <1>7, <1>8, <1>9 DEF NewText

\* What the agent writes, quotes or is suggested replaces the text of the composer.
LEMMA WrittenKept ==
  ASSUME ComposerMore, NEW c, NEW as \in Modes, Text(c, as), body' = NewText,
         mode' \in Modes, mode' = "reply" => as = "reply",
         UNCHANGED <<submission, dialog, dialogs, creating, posted, errors>>
  PROVE  ComposerMore'
<1>1. /\ TextsOK' /\ Len(texts') = Len(texts) + 1 /\ NewText = Len(texts')
      /\ NewText \in 1 .. MaxTexts /\ Unposted(NewText)
      /\ \A t \in 1 .. Len(texts) : texts'[t] = texts[t]
      /\ texts'[NewText].as = as
  BY TextAdded DEF ComposerMore
<1>2. Len(texts) \in Nat /\ \A t : t \in 0 .. Len(texts) => t \in 0 .. Len(texts') /\ t # NewText
  BY <1>1, TextsCounted DEF ComposerMore
<1>3. /\ \A t \in 1 .. Len(texts) : t \in 1 .. Len(texts') /\ t \in 0 .. Len(texts)
      /\ \A t \in 1 .. MaxTexts : t > Len(texts') => t > Len(texts)
      /\ NewText \in 0 .. Len(texts') /\ NewText # 0
  BY <1>1, <1>2
<1>4. CountsOK'
  BY <1>3 DEF ComposerMore, CountsOK
<1>5. WritingOK'
  <2>1. Unposted(NewText) /\ ((submission.text # 0 /\ ~submission.served) => Unposted(submission.text))
    BY <1>1 DEF ComposerMore, WritingOK
  <2>2. Unposted(body)' /\ ((submission.text # 0 /\ ~submission.served) => Unposted(submission.text)')
    BY <2>1 DEF Unposted
  <2> QED  BY <1>2, <1>3, <2>2 DEF ComposerMore, WritingOK
<1>6. DialogsOK'
  BY <1>2, <1>3 DEF ComposerMore, DialogsOK, Unposted
<1>7. Apart'
  BY <1>2, <1>3 DEF ComposerMore, Apart, DialogsOK, WritingOK
<1>8. NotesOK'
  <2>1. submission.text # 0 => submission.text \in 1 .. Len(texts)
    BY <1>2 DEF ComposerMore, WritingOK
  <2> QED  BY <1>1, <2>1 DEF ComposerMore, NotesOK, Repliable
<1> QED  BY <1>1, <1>4, <1>5, <1>6, <1>7, <1>8 DEF ComposerMore

\* A change of the mode takes the text along.
LEMMA ModeKept == ASSUME ComposerMore, NEW m \in Modes, selectMode(m) PROVE ComposerMore'
<1>1. /\ mode' = m
      /\ UNCHANGED <<body, submission, dialog, dialogs, creating, posted, errors>>
  BY DEF selectMode, NothingPosted
<1>2. /\ Len(texts) \in 0 .. MaxTexts /\ DOMAIN texts = 1 .. Len(texts)
      /\ \A t \in 0 .. Len(texts) : t # 0 => t \in 1 .. MaxTexts /\ t \in DOMAIN texts
  BY TextsCounted DEF ComposerMore
<1>3. /\ TextsOK' /\ Len(texts') = Len(texts)
      /\ \A t \in DOMAIN texts : /\ texts'[t].as = texts[t].as
                                 /\ texts[t].taken => texts'[t].taken
      /\ m = "reply" /\ body # 0 => texts'[body].taken
  <2>1. CASE body # 0 /\ m = "reply"
    <3>1. PICK S : texts \in Seq(TextOf(S))
      BY DEF ComposerMore, TextsOK
    <3> DEFINE r == [texts[body] EXCEPT !.taken = TRUE]
    <3>2. body \in 1 .. Len(texts)
      BY <1>2, <2>1 DEF ComposerMore, WritingOK
    <3>3. texts \in [1 .. Len(texts) -> TextOf(S)] /\ Len(texts) \in Nat
      BY <3>1, LenProperties
    <3>4. r \in TextOf(S) /\ r.as = texts[body].as /\ r.taken
      BY <3>2, <3>3 DEF TextOf
    <3>5. texts' = [texts EXCEPT ![body] = r]
      BY <2>1 DEF selectMode
    <3> HIDE DEF r
    <3>6. texts' \in [1 .. Len(texts) -> TextOf(S)]
      BY <3>2, <3>3, <3>4, <3>5
    <3>7. texts' \in Seq(TextOf(S)) /\ Len(texts') = Len(texts)
      BY <3>3, <3>6
    <3>8. TextsOK'
      BY <3>7 DEF ComposerMore, TextsOK
    <3> QED  BY <1>2, <3>2, <3>4, <3>5, <3>7, <3>8
  <2>2. CASE ~(body # 0 /\ m = "reply")
    <3>1. texts' = texts
      BY <2>2 DEF selectMode
    <3>2. TextsOK'
      BY <3>1 DEF ComposerMore, TextsOK
    <3> QED  BY <2>2, <3>1, <3>2
  <2> QED  BY <2>1, <2>2
<1>4. CountsOK' /\ WritingOK' /\ DialogsOK' /\ Apart'
  BY <1>1, <1>3 DEF ComposerMore, CountsOK, WritingOK, DialogsOK, Apart, Unposted
<1>5. NotesOK'
  <2>1. submission.text # 0 => submission.text \in DOMAIN texts
    BY <1>2 DEF ComposerMore, WritingOK
  <2> QED  BY <1>1, <1>3, <2>1 DEF ComposerMore, NotesOK, Repliable
<1> QED  BY <1>3, <1>4, <1>5 DEF ComposerMore

LEMMA SubmitKept == ComposerMore /\ handleSubmit => ComposerMore'
<1> SUFFICES ASSUME ComposerMore, handleSubmit PROVE ComposerMore'
  OBVIOUS
<1>1. /\ ~submission.served
      /\ submission' = [to |-> OnScreen, text |-> body, file |-> attachment, as |-> mode,
                        served |-> FALSE]
      /\ UNCHANGED <<texts, mode, body, dialog, dialogs, creating, posted, errors>>
  BY DEF handleSubmit, canSubmit, Idle, NothingPosted
<1>2. /\ submission'.text = body /\ submission'.as = mode /\ ~submission'.served
      /\ DOMAIN submission' = {"to", "text", "file", "as", "served"}
  BY <1>1
<1>3. TextsOK' /\ CountsOK' /\ DialogsOK'
  BY <1>1 DEF ComposerMore, TextsOK, CountsOK, DialogsOK, Unposted
<1>4. WritingOK'
  BY <1>1, <1>2 DEF ComposerMore, WritingOK, Unposted
<1>5. Apart' /\ NotesOK'
  BY <1>1, <1>2 DEF ComposerMore, Apart, NotesOK, Repliable
<1> QED  BY <1>3, <1>4, <1>5 DEF ComposerMore

\* One of the counts goes up.
LEMMA CountedUp ==
  ASSUME NEW f \in [1 .. MaxTexts -> Nat], NEW t \in 0 .. MaxTexts
  PROVE  /\ Count(f, t) \in [1 .. MaxTexts -> Nat]
         /\ \A u \in 1 .. MaxTexts : Count(f, t)[u] = IF u = t THEN f[u] + 1 ELSE f[u]
  BY DEF Count

LEMMA ServedKept == ComposerMore /\ Served => ComposerMore'
<1> SUFFICES ASSUME ComposerMore, Served PROVE ComposerMore'
  OBVIOUS
<1> DEFINE t == submission.text
<1>0. /\ Len(texts) \in 0 .. MaxTexts /\ MaxTexts \in Nat
      /\ \A u \in 0 .. Len(texts) : u # 0 => u \in 1 .. MaxTexts /\ u \in DOMAIN texts
  BY TextsCounted DEF ComposerMore
<1>1. /\ ~submission.served
      /\ submission' = [submission EXCEPT !.served = TRUE]
      /\ posted' = Count(posted, t)
      /\ UNCHANGED <<texts, mode, body, dialog, dialogs, creating, errors>>
  BY DEF Served
<1>2. /\ submission'.text = t /\ submission'.as = submission.as /\ submission'.served
      /\ DOMAIN submission' = {"to", "text", "file", "as", "served"}
  BY <1>1 DEF ComposerMore, WritingOK
<1>3. t \in 0 .. Len(texts) /\ t \in 0 .. MaxTexts /\ (t # 0 => Unposted(t))
  BY <1>0, <1>1 DEF ComposerMore, WritingOK
<1>4. /\ posted' \in [1 .. MaxTexts -> Nat]
      /\ \A u \in 1 .. MaxTexts : posted'[u] = IF u = t THEN posted[u] + 1 ELSE posted[u]
  BY <1>1, <1>3, CountedUp DEF ComposerMore, CountsOK
<1> HIDE DEF t
<1>5. \A u \in 1 .. MaxTexts : u # t /\ Unposted(u) => Unposted(u)'
  BY <1>1, <1>4 DEF Unposted
<1>6. CountsOK'
  BY <1>0, <1>1, <1>3, <1>4 DEF ComposerMore, CountsOK, Unposted
<1>7. WritingOK'
  <2>1. ASSUME body # 0, body # t PROVE Unposted(body)'
    <3>1. body \in 1 .. MaxTexts
      BY <1>0, <2>1 DEF ComposerMore, WritingOK
    <3>2. Unposted(body)
      BY <1>1, <2>1 DEF ComposerMore, WritingOK
    <3>3. \A u \in 1 .. MaxTexts : u = body => Unposted(u)'
      BY <1>5, <2>1, <3>2
    <3> QED  BY <1>1, <3>1, <3>3 DEF Unposted
  <2> QED  BY <1>1, <1>2, <2>1 DEF ComposerMore, WritingOK
<1>8. DialogsOK'
  <2>1. \A d \in creating : d.text # t /\ d.text \in 1 .. MaxTexts
    BY <1>0 DEF ComposerMore, Apart, DialogsOK, t
  <2>2. dialog.text # 0 => dialog.text # t /\ dialog.text \in 1 .. MaxTexts
    BY <1>0 DEF ComposerMore, Apart, DialogsOK, t
  <2>3. \A u \in 1 .. MaxTexts : u # t => posted'[u] = posted[u]
    BY <1>4
  <2> QED  BY <1>1, <2>1, <2>2, <2>3 DEF ComposerMore, DialogsOK, Unposted
<1>9. TextsOK' /\ Apart' /\ NotesOK'
  BY <1>1, <1>2 DEF ComposerMore, TextsOK, Apart, NotesOK, Repliable, t
<1> QED  BY <1>6, <1>7, <1>8, <1>9 DEF ComposerMore

LEMMA SubmittedKept == ComposerMore /\ Submitted => ComposerMore'
<1> SUFFICES ASSUME ComposerMore, Submitted PROVE ComposerMore'
  OBVIOUS
<1>0. 0 \in 0 .. Len(texts)
  BY TextsCounted DEF ComposerMore
<1>1. /\ submission' = Idle /\ body' = 0
      /\ UNCHANGED <<texts, mode, dialog, dialogs, creating, posted, errors>>
  BY DEF Submitted, NothingPosted
<1>2. /\ submission'.text = 0 /\ submission'.as = "reply" /\ ~submission'.served
      /\ DOMAIN submission' = {"to", "text", "file", "as", "served"}
  BY <1>1 DEF Idle
<1>3. TextsOK' /\ CountsOK' /\ DialogsOK'
  BY <1>1 DEF ComposerMore, TextsOK, CountsOK, DialogsOK, Unposted
<1>4. WritingOK' /\ Apart' /\ NotesOK'
  BY <1>0, <1>1, <1>2 DEF ComposerMore, WritingOK, Apart, NotesOK, Repliable, Modes
<1> QED  BY <1>3, <1>4 DEF ComposerMore

\* An error that is seen makes every text as postable as it was, and its own more so.
LEMMA ErrorSeen ==
  ASSUME CountsOK, NEW t \in 0 .. MaxTexts, errors' = Count(errors, t), posted' = posted
  PROVE  /\ errors' \in [1 .. MaxTexts -> Nat]
         /\ \A u \in 1 .. MaxTexts : /\ Unposted(u) => Unposted(u)'
                                     /\ u = t => Unposted(u)'
         /\ texts' = texts => CountsOK'
<1>1. /\ errors' \in [1 .. MaxTexts -> Nat]
      /\ \A u \in 1 .. MaxTexts : errors'[u] = IF u = t THEN errors[u] + 1 ELSE errors[u]
  BY CountedUp DEF CountsOK
<1>2. ASSUME NEW u \in 1 .. MaxTexts
      PROVE  /\ Unposted(u) => Unposted(u)'
             /\ u = t => Unposted(u)'
             /\ posted'[u] <= 1 + errors'[u]
  <2>1. posted[u] \in Nat /\ errors[u] \in Nat /\ posted[u] <= 1 + errors[u]
    BY DEF CountsOK
  <2> QED  BY <1>1, <2>1 DEF Unposted
<1>3. texts' = texts => CountsOK'
  BY <1>1, <1>2 DEF CountsOK
<1> QED  BY <1>1, <1>2, <1>3

LEMMA SubmitFailsKept == ComposerMore /\ SubmitFails => ComposerMore'
<1> SUFFICES ASSUME ComposerMore, SubmitFails PROVE ComposerMore'
  OBVIOUS
<1> DEFINE t == submission.text
<1>0. /\ Len(texts) \in 0 .. MaxTexts /\ MaxTexts \in Nat /\ 0 \in 0 .. Len(texts)
      /\ \A u \in 0 .. Len(texts) : u # 0 => u \in 1 .. MaxTexts
  BY TextsCounted DEF ComposerMore
<1>1. /\ submission' = Idle /\ errors' = Count(errors, t)
      /\ UNCHANGED <<texts, mode, body, dialog, dialogs, creating, posted>>
  BY DEF SubmitFails
<1>2. /\ submission'.text = 0 /\ submission'.as = "reply" /\ ~submission'.served
      /\ DOMAIN submission' = {"to", "text", "file", "as", "served"}
  BY <1>1 DEF Idle
<1>3. t \in 0 .. MaxTexts
  BY <1>0 DEF ComposerMore, WritingOK
<1>4. /\ CountsOK'
      /\ \A u \in 1 .. MaxTexts : (Unposted(u) \/ u = t) => Unposted(u)'
  BY <1>1, <1>3, ErrorSeen DEF ComposerMore
<1>5. WritingOK'
  <2>1. body # 0 => body \in 1 .. MaxTexts /\ (Unposted(body) \/ body = t)
    BY <1>0 DEF ComposerMore, WritingOK
  <2>2. body # 0 => posted'[body] <= errors'[body]
    BY <1>4, <2>1 DEF Unposted
  <2> QED  BY <1>0, <1>1, <1>2, <2>2 DEF ComposerMore, WritingOK, Unposted, Modes
<1>6. DialogsOK'
  <2>1. \A u \in 1 .. MaxTexts : posted[u] <= errors[u] => posted'[u] <= errors'[u]
    BY <1>4 DEF Unposted
  <2>2. \A u \in 1 .. Len(texts) : u \in 1 .. MaxTexts
    BY <1>0
  <2> QED  BY <1>0, <1>1, <2>1, <2>2 DEF ComposerMore, DialogsOK, Unposted
<1>7. TextsOK' /\ Apart' /\ NotesOK'
  BY <1>1, <1>2 DEF ComposerMore, TextsOK, Apart, NotesOK, Repliable
<1> QED  BY <1>4, <1>5, <1>6, <1>7 DEF ComposerMore

\* The dialog that opens has a text of its own.
LEMMA OpenKept == ComposerMore /\ OpenDialog => ComposerMore'
<1> SUFFICES ASSUME ComposerMore, OpenDialog PROVE ComposerMore'
  OBVIOUS
<1>0. "reply" \in Modes /\ Text(NoChat, "reply")
  BY DEF Modes, OpenDialog
<1>1. /\ TextsOK' /\ Len(texts') = Len(texts) + 1 /\ NewText = Len(texts')
      /\ NewText \in 1 .. MaxTexts /\ Unposted(NewText)
      /\ \A t \in 1 .. Len(texts) : texts'[t] = texts[t]
  BY <1>0, TextAdded DEF ComposerMore
<1>2. /\ Len(texts) \in Nat
      /\ \A t : t \in 0 .. Len(texts) => t \in 0 .. Len(texts') /\ t # NewText
  BY <1>1, TextsCounted DEF ComposerMore
<1>3. /\ \A t \in 1 .. Len(texts) : t \in 1 .. Len(texts') /\ t \in 0 .. Len(texts)
      /\ \A t \in 1 .. MaxTexts : t > Len(texts') => t > Len(texts)
      /\ NewText \in 0 .. Len(texts') /\ NewText # 0
  BY <1>1, <1>2
<1>4. /\ dialogs' = dialogs + 1 /\ dialogs \in Nat
      /\ dialog'.n = dialogs' /\ dialog'.text = NewText /\ dialog' # NoDialog
      /\ DOMAIN dialog' = {"n", "text", "file", "submitting"}
      /\ UNCHANGED <<mode, body, submission, creating, posted, errors>>
  BY <1>3 DEF OpenDialog, NothingPosted, ComposerMore, DialogsOK
<1>5. CountsOK' /\ WritingOK'
  BY <1>2, <1>3, <1>4 DEF ComposerMore, CountsOK, WritingOK, Unposted
<1>6. DialogsOK'
  <2>1. dialogs' \in Nat /\ dialogs' \in 0 .. dialogs' /\ dialogs' \notin 1 .. dialogs
        /\ \A n \in 1 .. dialogs : n \in 1 .. dialogs'
    BY <1>4
  <2>2. \A d \in creating : /\ DOMAIN d = {"n", "text", "file", "step"}
                            /\ d.n \in 1 .. dialogs /\ d.text \in 1 .. Len(texts)
                            /\ d.step = "create" => Unposted(d.text)
    BY DEF ComposerMore, DialogsOK
  <2>3. Unposted(dialog'.text)
    BY <1>1, <1>4
  <2>4. \A d, e \in creating : d.text = e.text => d = e
    BY DEF ComposerMore, DialogsOK
  <2>5. \A d \in creating : /\ DOMAIN d = {"n", "text", "file", "step"}
                            /\ d.n \in 1 .. dialogs' /\ d.text \in 1 .. Len(texts')
                            /\ d.step = "create" => Unposted(d.text)'
                            /\ dialog'.n # d.n /\ dialog'.text # d.text
    BY <1>2, <1>3, <1>4, <2>1, <2>2 DEF Unposted
  <2>6. (Unposted(dialog.text))'
    BY <1>4, <2>3 DEF Unposted
  <2> QED  BY <1>3, <1>4, <2>1, <2>4, <2>5, <2>6 DEF DialogsOK
<1>7. Apart'
  BY <1>2, <1>3, <1>4 DEF ComposerMore, Apart, DialogsOK, WritingOK
<1>8. NotesOK'
  <2>1. /\ body # 0 => body \in 1 .. Len(texts)
        /\ submission.text # 0 => submission.text \in 1 .. Len(texts)
    BY <1>2 DEF ComposerMore, WritingOK
  <2> QED  BY <1>1, <1>4, <2>1 DEF ComposerMore, NotesOK, Repliable
<1> QED  BY <1>1, <1>5, <1>6, <1>7, <1>8 DEF ComposerMore

LEMMA ClosedFits ==
  /\ NoDialog.n = 0 /\ NoDialog.text = 0 /\ ~NoDialog.submitting
  /\ DOMAIN NoDialog = {"n", "text", "file", "submitting"}
  BY DEF NoDialog

\* The dialog closes, whatever becomes of the commands.
LEMMA CloseKept ==
  ASSUME ComposerMore, dialog' = NoDialog, creating' \subseteq creating,
         UNCHANGED <<texts, mode, body, submission, dialogs, posted, errors>>
  PROVE  ComposerMore'
<1>1. TextsOK' /\ CountsOK' /\ WritingOK' /\ NotesOK'
  BY DEF ComposerMore, TextsOK, CountsOK, WritingOK, NotesOK, Unposted, Repliable
<1>2. 0 \in 0 .. Len(texts) /\ \A n : n \in 1 .. dialogs => n # 0
  BY TextsCounted DEF ComposerMore
<1>3. DialogsOK'
  BY <1>2, ClosedFits DEF ComposerMore, DialogsOK, Unposted
<1>4. Apart'
  BY ClosedFits DEF ComposerMore, Apart
<1> QED  BY <1>1, <1>3, <1>4 DEF ComposerMore

LEMMA CommandKept == ComposerMore /\ submit => ComposerMore'
<1> SUFFICES ASSUME ComposerMore, submit PROVE ComposerMore'
  OBVIOUS
<1> DEFINE d == [n |-> dialog.n, text |-> dialog.text, file |-> dialog.file, step |-> "create"]
           new == [dialog EXCEPT !.submitting = TRUE]
<1>1. /\ dialog # NoDialog /\ ~dialog.submitting /\ dialog' = new
      /\ creating' = creating \cup {d}
      /\ UNCHANGED <<texts, mode, body, submission, dialogs, posted, errors>>
  BY DEF submit, NothingPosted
<1>2. /\ dialog.text # 0 /\ Unposted(dialog.text) /\ \A e \in creating : e.text # dialog.text
      /\ dialog.text \in 1 .. Len(texts)
  BY <1>1, TextsCounted DEF ComposerMore, DialogsOK
<1>3. /\ DOMAIN d = {"n", "text", "file", "step"} /\ d.n = dialog.n /\ d.text = dialog.text
  OBVIOUS
<1>4. /\ new.n = dialog.n /\ new.text = dialog.text /\ new.submitting
      /\ DOMAIN new = {"n", "text", "file", "submitting"}
  BY DEF ComposerMore, DialogsOK
<1>5. d.n \in 1 .. dialogs /\ new.n # 0
  BY <1>1, <1>4 DEF ComposerMore, DialogsOK
<1> HIDE DEF d, new
<1>6. TextsOK' /\ CountsOK' /\ WritingOK' /\ NotesOK'
  BY <1>1 DEF ComposerMore, TextsOK, CountsOK, WritingOK, NotesOK, Unposted, Repliable
<1>7. DialogsOK'
  <2>1. \A e, f \in creating' : e.text = f.text => e = f
    BY <1>1, <1>2, <1>3 DEF ComposerMore, DialogsOK
  <2>2. \A e \in creating' : /\ DOMAIN e = {"n", "text", "file", "step"}
                             /\ e.n \in 1 .. dialogs /\ e.text \in 1 .. Len(texts)
                             /\ e.step = "create" => Unposted(e.text)
                             /\ dialog.n = e.n => dialog.text = e.text
    BY <1>1, <1>2, <1>3, <1>5 DEF ComposerMore, DialogsOK
  <2>3. \A e \in creating' : e.step = "create" => Unposted(e.text)'
    BY <1>1, <2>2 DEF Unposted
  <2> QED  BY <1>1, <1>2, <1>4, <1>5, <2>1, <2>2, <2>3 DEF ComposerMore, DialogsOK
<1>8. Apart'
  BY <1>1, <1>3, <1>4 DEF ComposerMore, Apart
<1> QED  BY <1>6, <1>7, <1>8 DEF ComposerMore

\* A command goes on to its next step.
LEMMA CommandMoves ==
  ASSUME ComposerMore, NEW d \in creating, NEW r, creating' = (creating \ {d}) \cup {r},
         r.n = d.n, r.text = d.text, r.step # "create",
         DOMAIN r = {"n", "text", "file", "step"},
         UNCHANGED <<texts, mode, body, submission, dialog, dialogs, errors>>,
         posted' \in [1 .. MaxTexts -> Nat],
         \A u \in 1 .. MaxTexts : u # d.text => posted'[u] = posted[u],
         posted'[d.text] <= 1 + errors[d.text]
  PROVE  ComposerMore'
<1>1. /\ Len(texts) \in 0 .. MaxTexts /\ MaxTexts \in Nat
      /\ \A u \in 0 .. Len(texts) : u # 0 => u \in 1 .. MaxTexts
      /\ \A u \in 1 .. Len(texts) : u \in 1 .. MaxTexts /\ ~(u > Len(texts))
  BY TextsCounted DEF ComposerMore
<1>2. /\ d.text \in 1 .. Len(texts) /\ d.n \in 1 .. dialogs
      /\ dialog.n = d.n => dialog.text = d.text
      /\ dialog.text # 0 /\ ~dialog.submitting => dialog.text # d.text
      /\ \A e \in creating : e.text = d.text => e = d
  BY DEF ComposerMore, DialogsOK
<1>3. \A u \in 1 .. MaxTexts : u # d.text /\ Unposted(u) => Unposted(u)'
  BY DEF Unposted
<1>4. CountsOK'
  BY <1>1, <1>2 DEF ComposerMore, CountsOK
<1>5. WritingOK'
  <2>1. /\ body # 0 => body \in 1 .. MaxTexts /\ body # d.text
        /\ submission.text # 0 => submission.text \in 1 .. MaxTexts /\ submission.text # d.text
    BY <1>1 DEF ComposerMore, WritingOK, Apart
  <2>2. /\ body # 0 => posted'[body] = posted[body]
        /\ submission.text # 0 => posted'[submission.text] = posted[submission.text]
    BY <2>1
  <2> QED  BY <2>2 DEF ComposerMore, WritingOK, Unposted
<1>6. DialogsOK'
  <2>1. \A e, f \in creating' : e.text = f.text => e = f
    BY <1>2 DEF ComposerMore, DialogsOK
  <2>2. \A e \in creating \ {d} :
          /\ DOMAIN e = {"n", "text", "file", "step"}
          /\ e.n \in 1 .. dialogs /\ e.text \in 1 .. Len(texts) /\ e.text # d.text
          /\ e.step = "create" => posted[e.text] <= errors[e.text]
          /\ dialog.n = e.n => dialog.text = e.text
    BY <1>2 DEF ComposerMore, DialogsOK, Unposted
  <2>3. \A e \in creating \ {d} : e.step = "create" => posted'[e.text] <= errors'[e.text]
    BY <1>1, <2>2
  <2>4. \A e \in creating' : /\ DOMAIN e = {"n", "text", "file", "step"}
                             /\ e.n \in 1 .. dialogs /\ e.text \in 1 .. Len(texts)
                             /\ e.step = "create" => posted'[e.text] <= errors'[e.text]
                             /\ dialog.n = e.n => dialog.text = e.text
    BY <1>2, <2>2, <2>3
  <2>5. dialog.text # 0 /\ ~dialog.submitting =>
          /\ posted'[dialog.text] <= errors[dialog.text]
          /\ \A e \in creating' : e.text # dialog.text
    <3> SUFFICES ASSUME dialog.text # 0, ~dialog.submitting
                 PROVE  /\ posted'[dialog.text] <= errors[dialog.text]
                        /\ \A e \in creating' : e.text # dialog.text
      OBVIOUS
    <3>1. dialog.text \in 1 .. MaxTexts /\ dialog.text # d.text /\ posted[dialog.text] <= errors[dialog.text]
      BY <1>1, <1>2 DEF ComposerMore, DialogsOK, Unposted
    <3>2. \A e \in creating' : e.text # dialog.text
      BY <1>2 DEF ComposerMore, DialogsOK
    <3> QED  BY <3>1, <3>2
  <2> QED  BY <2>1, <2>4, <2>5 DEF ComposerMore, DialogsOK, Unposted
<1>7. TextsOK' /\ NotesOK'
  BY DEF ComposerMore, TextsOK, NotesOK, Repliable
<1>8. Apart'
  BY DEF ComposerMore, Apart
<1> QED  BY <1>4, <1>5, <1>6, <1>7, <1>8 DEF ComposerMore

LEMMA CreateKept ==
  ASSUME ComposerMore, NEW d \in creating, Create(d) \/ SendMedia(d)
  PROVE  ComposerMore'
<1>0. d.text \in 1 .. MaxTexts /\ d.text \in 0 .. MaxTexts /\ posted[d.text] <= 1 + errors[d.text]
  BY TextsCounted DEF ComposerMore, DialogsOK, CountsOK
<1>1. DOMAIN d = {"n", "text", "file", "step"} /\ (d.step = "create" => Unposted(d.text))
  BY DEF ComposerMore, DialogsOK
<1>2. CASE Create(d)
  <2> DEFINE r == [d EXCEPT !.step = IF d.file THEN "media" ELSE "done"]
  <2>1. /\ r.n = d.n /\ r.text = d.text /\ r.step # "create"
        /\ DOMAIN r = {"n", "text", "file", "step"}
    BY <1>1
  <2>2. /\ creating' = (creating \ {d}) \cup {r} /\ posted' = Count(posted, d.text)
        /\ UNCHANGED <<texts, mode, body, submission, dialog, dialogs, errors>>
    BY <1>2 DEF Create
  <2> HIDE DEF r
  <2>3. /\ posted' \in [1 .. MaxTexts -> Nat]
        /\ \A u \in 1 .. MaxTexts : posted'[u] = IF u = d.text THEN posted[u] + 1 ELSE posted[u]
    BY <1>0, <2>2, CountedUp DEF ComposerMore, CountsOK
  <2>4. posted'[d.text] <= 1 + errors[d.text]
    BY <1>0, <1>1, <1>2, <2>3 DEF Create, Unposted, ComposerMore, CountsOK
  <2> QED  BY <2>1, <2>2, <2>3, <2>4, CommandMoves
<1>3. CASE SendMedia(d)
  <2> DEFINE r == [d EXCEPT !.step = "done"]
  <2>1. /\ r.n = d.n /\ r.text = d.text /\ r.step # "create"
        /\ DOMAIN r = {"n", "text", "file", "step"}
    BY <1>1
  <2>2. /\ creating' = (creating \ {d}) \cup {r} /\ posted' = posted
        /\ UNCHANGED <<texts, mode, body, submission, dialog, dialogs, errors>>
    BY <1>3 DEF SendMedia, NothingPosted
  <2> HIDE DEF r
  <2>3. posted' \in [1 .. MaxTexts -> Nat]
    BY <2>2 DEF ComposerMore, CountsOK
  <2> QED  BY <1>0, <2>1, <2>2, <2>3, CommandMoves
<1> QED  BY <1>2, <1>3

\* A command that fails gives its text back to its dialog, if that is still open.
LEMMA CreateFailsKept ==
  ASSUME ComposerMore, NEW d \in creating, CreateFails(d)
  PROVE  ComposerMore'
<1>1. /\ Len(texts) \in 0 .. MaxTexts /\ MaxTexts \in Nat
      /\ \A u \in 0 .. Len(texts) : u # 0 => u \in 1 .. MaxTexts
      /\ \A u \in 1 .. Len(texts) : u \in 1 .. MaxTexts
  BY TextsCounted DEF ComposerMore
<1>2. /\ d.text \in 1 .. Len(texts) /\ d.text \in 0 .. MaxTexts
      /\ dialog.n = d.n => dialog.text = d.text
      /\ \A e \in creating : e.text = d.text => e = d
  BY <1>1 DEF ComposerMore, DialogsOK
<1>3. /\ creating' = creating \ {d} /\ errors' = Count(errors, d.text)
      /\ UNCHANGED <<texts, mode, body, submission, dialogs, posted>>
  BY DEF CreateFails
<1>4. /\ CountsOK'
      /\ \A u \in 1 .. MaxTexts : (Unposted(u) \/ u = d.text) => Unposted(u)'
  BY <1>2, <1>3, ErrorSeen DEF ComposerMore
<1>4a. \A u \in 1 .. MaxTexts : (posted[u] <= errors[u] \/ u = d.text) => posted'[u] <= errors'[u]
  BY <1>4 DEF Unposted
<1>5. /\ dialog'.n = dialog.n /\ dialog'.text = dialog.text
      /\ DOMAIN dialog' = {"n", "text", "file", "submitting"}
      /\ dialog'.submitting <=> (dialog.submitting /\ dialog.n # d.n)
      /\ dialog.n # d.n => dialog' = dialog
  BY DEF CreateFails, ComposerMore, DialogsOK
<1>6. WritingOK'
  <2>1. /\ body # 0 => body \in 1 .. MaxTexts
        /\ submission.text # 0 => submission.text \in 1 .. MaxTexts
    BY <1>1 DEF ComposerMore, WritingOK
  <2> QED  BY <1>3, <1>4a, <2>1 DEF ComposerMore, WritingOK, Unposted
<1>7. DialogsOK'
  <2>1. \A e \in creating' : /\ DOMAIN e = {"n", "text", "file", "step"}
                             /\ e.n \in 1 .. dialogs /\ e.text \in 1 .. Len(texts)
                             /\ e.step = "create" => posted'[e.text] <= errors'[e.text]
                             /\ dialog.n = e.n => dialog.text = e.text
                             /\ e.text # d.text
    BY <1>1, <1>2, <1>3, <1>4a DEF ComposerMore, DialogsOK, Unposted
  <2>2. dialog.text # 0 /\ ~dialog'.submitting =>
          /\ posted'[dialog.text] <= errors'[dialog.text]
          /\ \A e \in creating' : e.text # dialog.text
    <3>1. CASE dialog.n = d.n
      BY <1>1, <1>2, <1>4a, <2>1, <3>1
    <3>2. CASE dialog.n # d.n
      <4> SUFFICES ASSUME dialog.text # 0, ~dialog.submitting
                   PROVE  /\ posted'[dialog.text] <= errors'[dialog.text]
                          /\ \A e \in creating' : e.text # dialog.text
        BY <1>5, <3>2
      <4>1. dialog.text \in 1 .. MaxTexts /\ posted[dialog.text] <= errors[dialog.text]
            /\ \A e \in creating : e.text # dialog.text
        BY <1>1 DEF ComposerMore, DialogsOK, Unposted
      <4> QED  BY <1>3, <1>4a, <4>1
    <3> QED  BY <3>1, <3>2
  <2>3. \A e, f \in creating' : e.text = f.text => e = f
    BY <1>3 DEF ComposerMore, DialogsOK
  <2>4. dialog' = NoDialog \/ (dialog'.n # 0 /\ dialog'.text # 0)
    BY <1>2, <1>5 DEF ComposerMore, DialogsOK
  <2> QED  BY <1>3, <1>5, <2>1, <2>2, <2>3, <2>4 DEF ComposerMore, DialogsOK, Unposted
<1>8. TextsOK' /\ Apart' /\ NotesOK'
  BY <1>3, <1>5 DEF ComposerMore, TextsOK, Apart, NotesOK, Repliable
<1> QED  BY <1>4, <1>6, <1>7, <1>8 DEF ComposerMore

LEMMA ComposerInitHolds == ComposerInit => ComposerMore
<1> SUFFICES ASSUME ComposerInit PROVE ComposerMore
  OBVIOUS
<1>1. texts = <<>> /\ <<>> \in Seq(TextOf({})) /\ Len(<<>>) = 0 /\ 0 \in 0 .. 0
  BY DEF ComposerInit
<1>2. MaxTexts \in Nat
  BY ComposerAssumption
<1>3. TextsOK
  BY <1>1, <1>2 DEF TextsOK
<1>4. CountsOK
  BY <1>1, <1>2 DEF ComposerInit, CountsOK
<1>5. /\ submission.text = 0 /\ submission.as = "reply"
      /\ DOMAIN submission = {"to", "text", "file", "as", "served"}
  BY DEF ComposerInit, Idle
<1>6. WritingOK /\ Apart /\ NotesOK
  BY <1>1, <1>5 DEF ComposerInit, WritingOK, Apart, NotesOK, Repliable, Modes
<1>7. DialogsOK
  BY <1>1, ClosedFits DEF ComposerInit, DialogsOK
<1> QED  BY <1>3, <1>4, <1>6, <1>7 DEF ComposerMore

LEMMA ComposerStepKept == ComposerMore /\ [ComposerNext]_composerVars => ComposerMore'
<1> SUFFICES ASSUME ComposerMore, [ComposerNext]_composerVars PROVE ComposerMore'
  OBVIOUS
<1>0. "reply" \in Modes /\ mode \in Modes
  BY DEF Modes, ComposerMore, WritingOK
<1>1. CASE Write
  BY <1>0, <1>1, WrittenKept DEF Write, NothingPosted
<1>2. ASSUME NEW m \in Modes, Quote(m) PROVE ComposerMore'
  BY <1>2, WrittenKept DEF Quote, QuotedBody, NothingPosted
<1>3. CASE Suggestion
  BY <1>0, <1>3, WrittenKept DEF Suggestion, NothingPosted
<1>4. CASE Attach \/ suggestReply \/ SuggestionFails \/ PhonesRead \/ UNCHANGED composerVars
  <2>1. UNCHANGED <<texts, mode, body, submission, dialog, dialogs, creating, posted, errors>>
    BY <1>4 DEF Attach, suggestReply, SuggestionFails, PhonesRead, composerVars, NothingPosted
  <2> QED  BY <2>1 DEF ComposerMore, TextsOK, CountsOK, WritingOK, DialogsOK, Apart, NotesOK,
                       Unposted, Repliable
<1>5. CASE CloseDialog
  BY <1>5, CloseKept DEF CloseDialog, NothingPosted
<1>6. ASSUME NEW d \in creating, NEW c \in Chats, Created(d, c) PROVE ComposerMore'
  BY <1>6, CloseKept DEF Created, NothingPosted
<1> QED  BY <1>1, <1>2, <1>3, <1>4, <1>5, <1>6, ModeKept, SubmitKept, ServedKept, SubmittedKept,
            SubmitFailsKept, OpenKept, CommandKept, CreateKept, CreateFailsKept
         DEF ComposerNext, ComposerStep

-----------------------------------------------------------------------------
(* A shared browser. *)

\* A request carries what its kind needs: who signs in, or a token that was issued.
Carries(r) ==
  /\ r \in Call
  /\ IF r.op = "login" THEN r.user \in Users ELSE r.token \in DOMAIN bearer

CallsCarry == \A r \in callsOut : Carries(r)
TokensOK == /\ \E n \in 0 .. MaxTokens : bearer \in [1 .. n -> Users]
            /\ outdated \subseteq DOMAIN bearer /\ storage \in {0} \cup DOMAIN bearer
            /\ tab \in [Tabs -> {0} \cup DOMAIN bearer]
PushesOK == /\ endpoints \in 0 .. MaxEndpoints /\ endpoint \in {0, endpoints}
            /\ owner \in [Endpoints -> Users \cup {NoUser}]
            /\ subscriber \in [Endpoints -> Users \cup {NoUser}]
            /\ PushesFollowTheBrowser
BrowserInv == TokensOK /\ PushesOK /\ CallsCarry

LEMMA BrowserInitHolds == BrowserInit => BrowserInv
<1> SUFFICES ASSUME BrowserInit PROVE BrowserInv
  OBVIOUS
<1>0. 0 \in 0 .. MaxTokens /\ 0 \in 0 .. MaxEndpoints /\ 1 .. 0 = {}
  BY BrowserAssumption
<1>1. DOMAIN bearer = {} /\ bearer \in [1 .. 0 -> Users]
  BY <1>0 DEF BrowserInit
<1>2. TokensOK
  BY <1>0, <1>1 DEF BrowserInit, TokensOK
<1>3. PushesOK
  BY <1>0 DEF BrowserInit, PushesOK, PushesFollowTheBrowser
<1> QED  BY <1>2, <1>3 DEF BrowserInit, BrowserInv, CallsCarry

LEMMA TokensCounted ==
  ASSUME TokensOK
  PROVE  /\ Issued \in 0 .. MaxTokens
         /\ bearer \in [1 .. Issued -> Users] /\ DOMAIN bearer = 1 .. Issued
<1>1. PICK n \in 0 .. MaxTokens : bearer \in [1 .. n -> Users]
  BY DEF TokensOK
<1>2. \A k \in Nat : Cardinality(1 .. k) = k
  BY FS_Interval
<1>3. n \in Nat /\ DOMAIN bearer = 1 .. n
  BY <1>1, BrowserAssumption
<1>4. Issued = n
  BY <1>2, <1>3, Zenon DEF Issued
<1> QED  BY <1>1, <1>3, <1>4

\* What is stored is a token, or nothing.
LEMMA StoredFits == TokensOK => readStoredSession \in {0} \cup DOMAIN bearer
  BY DEF TokensOK, readStoredSession

\* A sign-in adds a token to those that were issued.
LEMMA LoginKept ==
  ASSUME BrowserInv, NEW r \in callsOut, LoginAnswer(r)
  PROVE  BrowserInv'
<1> DEFINE n == Issued + 1
<1>1. /\ Issued \in 0 .. MaxTokens /\ Issued < MaxTokens
      /\ bearer \in [1 .. Issued -> Users] /\ DOMAIN bearer = 1 .. Issued
  BY TokensCounted DEF BrowserInv, LoginAnswer
<1>2. n \in 0 .. MaxTokens /\ n \in 1 .. n /\ \A k \in 1 .. n : k = n \/ k \in 1 .. Issued
  BY <1>1, BrowserAssumption
<1>2a. \A k \in 1 .. Issued : k \in 1 .. n
  BY <1>1
<1>3. r.user \in Users /\ r.tab \in Tabs
  BY DEF BrowserInv, CallsCarry, Carries, LoginAnswer, Call
<1>4. bearer' = [k \in 1 .. n |-> IF k = n THEN r.user ELSE bearer[k]]
  BY DEF LoginAnswer
<1>5. storage' = n /\ tab' = [tab EXCEPT ![r.tab] = n] /\ outdated' = outdated
  BY DEF LoginAnswer
<1> HIDE DEF n
<1>6. bearer' \in [1 .. n -> Users] /\ DOMAIN bearer' = 1 .. n
  BY <1>1, <1>2, <1>3, <1>4
<1>7. DOMAIN bearer \subseteq DOMAIN bearer'
  BY <1>1, <1>2a, <1>6
<1>8. TokensOK'
  <2>1. outdated' \subseteq DOMAIN bearer' /\ storage' \in DOMAIN bearer'
    BY <1>2, <1>5, <1>6, <1>7 DEF BrowserInv, TokensOK
  <2>2. tab' \in [Tabs -> {0} \cup DOMAIN bearer']
    BY <1>2, <1>3, <1>5, <1>6, <1>7 DEF BrowserInv, TokensOK
  <2> QED  BY <1>2, <1>6, <2>1, <2>2 DEF TokensOK
<1>9. CallsCarry'
  BY <1>7 DEF BrowserInv, CallsCarry, Carries, LoginAnswer
<1>10. PushesOK'
  BY DEF BrowserInv, PushesOK, PushesFollowTheBrowser, LoginAnswer
<1> QED  BY <1>8, <1>9, <1>10 DEF BrowserInv

\* Requests that are sent, answered and lost.
LEMMA RequestsFit ==
  ASSUME BrowserInv, NEW t \in Tabs,
         NEW op \in {"data", "subscribe", "unsubscribe"}, NEW e \in 0 .. MaxEndpoints,
         Send(t, op, e), UNCHANGED <<bearer, outdated, tab>>
  PROVE  TokensOK' /\ CallsCarry'
<1>0. readStoredSession \in {0} \cup DOMAIN bearer
  BY StoredFits DEF BrowserInv
<1>1. TokensOK'
  BY <1>0 DEF BrowserInv, TokensOK, Send
<1> DEFINE r == [tab |-> t, op |-> op, user |-> NoUser, token |-> storage, endpoint |-> e]
<1>2. readStoredSession # 0 => storage = readStoredSession
  BY DEF readStoredSession
<1>3. \A k \in DOMAIN bearer : k \in 0 .. MaxTokens
  BY TokensCounted, BrowserAssumption DEF BrowserInv
<1>4. readStoredSession # 0 => Carries(r)
  BY <1>0, <1>2, <1>3 DEF Carries, Call
<1>5. CallsCarry'
  BY <1>4 DEF BrowserInv, CallsCarry, Carries, Send
<1> QED  BY <1>1, <1>5

LEMMA BrowserStep == BrowserInv /\ [BrowserNext]_browserVars => BrowserInv'
<1> SUFFICES ASSUME BrowserInv, [BrowserNext]_browserVars PROVE BrowserInv'
  OBVIOUS
<1>0. endpoint \in 0 .. MaxEndpoints
  BY BrowserAssumption DEF BrowserInv, PushesOK
<1>1. ASSUME NEW t \in Tabs, PageLoads(t) \/ SignOut(t) PROVE BrowserInv'
  <2>1. TokensOK'
    BY <1>1, StoredFits DEF BrowserInv, TokensOK, PageLoads, SignOut
  <2> QED  BY <1>1, <2>1 DEF BrowserInv, CallsCarry, Carries, PushesOK, PushesFollowTheBrowser,
                             PageLoads, SignOut
<1>2. ASSUME NEW t \in Tabs, NEW u \in Users, Login(t, u) PROVE BrowserInv'
  <2> DEFINE r == [tab |-> t, op |-> "login", user |-> u, token |-> 0, endpoint |-> 0]
  <2>0. 0 \in 0 .. MaxTokens /\ 0 \in 0 .. MaxEndpoints
    BY BrowserAssumption
  <2>1. Carries(r)
    BY <2>0 DEF Carries, Call
  <2>2. CallsCarry'
    BY <1>2, <2>1 DEF BrowserInv, CallsCarry, Carries, Login
  <2> QED  BY <1>2, <2>2 DEF BrowserInv, TokensOK, PushesOK, PushesFollowTheBrowser, Login
<1>3. ASSUME NEW t \in Tabs, Ask(t) PROVE BrowserInv'
  <2>0. 0 \in 0 .. MaxEndpoints
    BY BrowserAssumption
  <2>1. TokensOK' /\ CallsCarry'
    BY <1>3, <2>0, RequestsFit DEF Ask
  <2> QED  BY <1>3, <2>1 DEF BrowserInv, PushesOK, PushesFollowTheBrowser, Ask
<1>4. ASSUME NEW t \in Tabs, EnablePush(t) PROVE BrowserInv'
  <2>1. /\ endpoint' \in 0 .. MaxEndpoints
        /\ endpoints' \in 0 .. MaxEndpoints /\ endpoint' \in {0, endpoints'}
    BY <1>4, BrowserAssumption DEF BrowserInv, PushesOK, EnablePush
  <2>2. TokensOK' /\ CallsCarry'
    BY <1>4, <2>1, RequestsFit DEF EnablePush
  <2> QED  BY <1>4, <2>1, <2>2 DEF BrowserInv, PushesOK, PushesFollowTheBrowser, EnablePush
<1>5. ASSUME NEW t \in Tabs, DisablePush(t) PROVE BrowserInv'
  <2>1. TokensOK' /\ CallsCarry'
    BY <1>0, <1>5, RequestsFit DEF DisablePush
  <2> QED  BY <1>5, <2>1 DEF BrowserInv, PushesOK, PushesFollowTheBrowser, DisablePush
<1>6. ASSUME NEW r \in callsOut, Refused(r) \/ Answered(r) \/ Lost(r) PROVE BrowserInv'
  <2>1. r.tab \in Tabs
    BY DEF BrowserInv, CallsCarry, Carries, Call
  <2>2. TokensOK'
    BY <1>6, <2>1 DEF BrowserInv, TokensOK, Refused, Answered, Lost
  <2> QED  BY <1>6, <2>2 DEF BrowserInv, CallsCarry, Carries, PushesOK, PushesFollowTheBrowser,
                             Refused, Answered, Lost
<1>7. ASSUME NEW r \in callsOut, Subscribe(r) PROVE BrowserInv'
  <2>1. bearer[r.token] \in Users
    BY <1>7 DEF BrowserInv, CallsCarry, Carries, TokensOK, Subscribe, Valid
  <2>2. PushesOK'
    BY <1>7, <2>1 DEF BrowserInv, PushesOK, PushesFollowTheBrowser, Subscribe, NewOwner
  <2> QED  BY <1>7, <2>2 DEF BrowserInv, CallsCarry, Carries, TokensOK, Subscribe
<1>8. ASSUME NEW r \in callsOut, Unsubscribe(r) PROVE BrowserInv'
  <2>1. PushesOK'
    BY <1>8 DEF BrowserInv, PushesOK, PushesFollowTheBrowser, Unsubscribe
  <2> DEFINE q == [r EXCEPT !.op = "unsubscribed"]
  <2>2. r \in Call /\ r.token \in DOMAIN bearer
    BY <1>8 DEF BrowserInv, CallsCarry, Carries, Unsubscribe, Valid
  <2>3. q \in Call /\ q.token = r.token /\ q.op = "unsubscribed"
    BY <2>2 DEF Call
  <2>4. callsOut' = (callsOut \ {r}) \cup {q} /\ bearer' = bearer
    BY <1>8 DEF Unsubscribe
  <2> HIDE DEF q
  <2>5. CallsCarry'
    BY <2>2, <2>3, <2>4 DEF BrowserInv, CallsCarry, Carries
  <2> QED  BY <1>8, <2>1, <2>5 DEF BrowserInv, TokensOK, Unsubscribe
<1>9. ASSUME NEW r \in callsOut, Unsubscribed(r) PROVE BrowserInv'
  BY <1>9 DEF BrowserInv, CallsCarry, Carries, TokensOK, PushesOK, PushesFollowTheBrowser,
              Unsubscribed
<1>10. ASSUME NEW n \in DOMAIN bearer, Expire(n) PROVE BrowserInv'
  BY <1>10 DEF BrowserInv, CallsCarry, Carries, TokensOK, PushesOK, PushesFollowTheBrowser, Expire
<1>11. ASSUME NEW e \in Endpoints, PushToDead(e) PROVE BrowserInv'
  BY <1>11 DEF BrowserInv, CallsCarry, Carries, TokensOK, PushesOK, PushesFollowTheBrowser,
               PushToDead
<1>12. CASE UNCHANGED browserVars
  BY <1>12 DEF browserVars, BrowserInv, CallsCarry, Carries, TokensOK, PushesOK,
               PushesFollowTheBrowser
<1> QED  BY <1>1, <1>2, <1>3, <1>4, <1>5, <1>6, <1>7, <1>8, <1>9, <1>10, <1>11, <1>12, LoginKept
         DEF BrowserNext

-----------------------------------------------------------------------------
(* The screen that links a phone. *)

\* The screen's own request for a QR is marked, and only pairs; a sync that succeeded has
\* synced the chats.  mark, done: asked and chatsSynced.
CallFits(c, mark, done) ==
  /\ c \in LinkCall
  /\ c.op = "autoQr" => mark /\ c.at \in {"connect", "done"}
  /\ c.op \in {"sync", "autoSync"} => c.at \in {"sync", "done"} /\ (c.at = "done" /\ c.ok => done)

AutoOnce(s) == \A j, k \in DOMAIN s : s[j].op = "autoQr" /\ s[k].op = "autoQr" => j = k
CallsFit(s, mark, done) ==
  /\ s \in Seq(LinkCall) /\ \A k \in DOMAIN s : CallFits(s[k], mark, done)
  /\ AutoOnce(s)

\* A sync is under way, or what failed is about to be told.
TriedBy(c) == c.at = "sync" \/ ~c.ok
UnderWay(s) == \E k \in DOMAIN s : TriedBy(s[k])
Tried(s) == chatsSynced \/ failureTold \/ UnderWay(s)

LinkMore ==
  /\ device \in Statuses /\ issued \in Nat
  /\ CallsFit(linkCalls, asked, chatsSynced)
  /\ autoSynced => Tried(linkCalls)

LEMMA LinkMoreImplies == LinkMore => LinkScreenInv
  BY DEF LinkMore, LinkScreenInv, OneAutoRequest, MarkMeansTried, CallsFit, AutoOnce, Tried,
         UnderWay, TriedBy

\* A request that joins the others.
LEMMA OneMoreCall ==
  ASSUME NEW s, NEW mark, NEW done, CallsFit(s, mark, done),
         NEW c, CallFits(c, mark, done),
         c.op = "autoQr" => \A k \in DOMAIN s : s[k].op # "autoQr"
  PROVE  /\ CallsFit(Append(s, c), mark, done)
         /\ UnderWay(s) \/ TriedBy(c) => UnderWay(Append(s, c))
<1> DEFINE t == Append(s, c)
<1>1. /\ t \in Seq(LinkCall) /\ Len(t) = Len(s) + 1
      /\ \A i \in 1 .. Len(s) : t[i] = s[i]
      /\ t[Len(s) + 1] = c
  BY AppendProperties DEF CallsFit, CallFits
<1>2. DOMAIN t = 1 .. Len(s) + 1 /\ DOMAIN s = 1 .. Len(s) /\ Len(s) \in Nat
  BY <1>1, LenProperties DEF CallsFit
<1>3. \A k \in 1 .. Len(s) + 1 : k \in 1 .. Len(s) \/ k = Len(s) + 1
  BY <1>2
<1>4. Len(s) + 1 \in 1 .. Len(s) + 1 /\ \A k \in 1 .. Len(s) : k \in 1 .. Len(s) + 1
  BY <1>2
<1> HIDE DEF t
<1>5. CallsFit(t, mark, done)
  BY <1>1, <1>2, <1>3 DEF CallsFit, AutoOnce
<1>6. UnderWay(s) \/ TriedBy(c) => UnderWay(t)
  BY <1>1, <1>2, <1>4 DEF UnderWay
<1> QED  BY <1>5, <1>6 DEF t

\* One of them ends.
LEMMA OneCallLess ==
  ASSUME NEW s, NEW mark, NEW done, CallsFit(s, mark, done), NEW k \in DOMAIN s
  PROVE  /\ CallsFit(RemoveAt(s, k), mark, done)
         /\ s[k].op = "autoQr" => \A i \in DOMAIN RemoveAt(s, k) : RemoveAt(s, k)[i].op # "autoQr"
         /\ UnderWay(s) /\ ~TriedBy(s[k]) => UnderWay(RemoveAt(s, k))
<1> DEFINE t == RemoveAt(s, k)
<1>1. /\ t \in Seq(LinkCall)
      /\ \A i \in DOMAIN t : \E j \in DOMAIN s : j # k /\ t[i] = s[j]
                                                 /\ j = IF i < k THEN i ELSE i + 1
      /\ \A j \in DOMAIN s \ {k} : \E i \in DOMAIN t : t[i] = s[j]
  BY RemoveOne, OthersRemain DEF CallsFit
<1>2. DOMAIN t = 1 .. Len(t) /\ DOMAIN s = 1 .. Len(s) /\ Len(t) \in Nat /\ Len(s) \in Nat
  BY <1>1, LenProperties DEF CallsFit
<1> HIDE DEF t
<1>3. AutoOnce(t)
  <2> SUFFICES ASSUME NEW i1 \in DOMAIN t, NEW i2 \in DOMAIN t,
                      t[i1].op = "autoQr", t[i2].op = "autoQr"
               PROVE  i1 = i2
    BY DEF AutoOnce
  <2>1. PICK j1 \in DOMAIN s : t[i1] = s[j1] /\ j1 = IF i1 < k THEN i1 ELSE i1 + 1
    BY <1>1
  <2>2. PICK j2 \in DOMAIN s : t[i2] = s[j2] /\ j2 = IF i2 < k THEN i2 ELSE i2 + 1
    BY <1>1
  <2>3. j1 = j2
    BY <2>1, <2>2 DEF CallsFit, AutoOnce
  <2> QED  BY <1>2, <2>1, <2>2, <2>3
<1>4. CallsFit(t, mark, done)
  BY <1>1, <1>3 DEF CallsFit
<1>5. s[k].op = "autoQr" => \A i \in DOMAIN t : t[i].op # "autoQr"
  BY <1>1 DEF CallsFit, AutoOnce
<1>6. UnderWay(s) /\ ~TriedBy(s[k]) => UnderWay(t)
  BY <1>1 DEF UnderWay
<1> QED  BY <1>4, <1>5, <1>6 DEF t

\* One of them changes, and stays what it is.
LEMMA OneCallChanges ==
  ASSUME NEW s, NEW mark, NEW done, CallsFit(s, mark, done), NEW k \in DOMAIN s,
         NEW c, CallFits(c, mark, done), c.op = "autoQr" => s[k].op = "autoQr"
  PROVE  /\ CallsFit([s EXCEPT ![k] = c], mark, done)
         /\ TriedBy(c) => UnderWay([s EXCEPT ![k] = c])
         /\ UnderWay(s) /\ ~TriedBy(s[k]) => UnderWay([s EXCEPT ![k] = c])
<1> DEFINE t == [s EXCEPT ![k] = c]
<1>1. Len(s) \in Nat /\ s \in [1 .. Len(s) -> LinkCall] /\ DOMAIN s = 1 .. Len(s) /\ c \in LinkCall
  BY LenProperties DEF CallsFit, CallFits
<1>2. /\ t \in [1 .. Len(s) -> LinkCall] /\ DOMAIN t = DOMAIN s
      /\ t[k] = c /\ \A j \in DOMAIN s \ {k} : t[j] = s[j]
  BY <1>1
<1> HIDE DEF t
<1>3. t \in Seq(LinkCall)
  BY <1>1, <1>2
<1>4. CallsFit(t, mark, done)
  BY <1>2, <1>3 DEF CallsFit, AutoOnce
<1>5. (TriedBy(c) => UnderWay(t)) /\ (UnderWay(s) /\ ~TriedBy(s[k]) => UnderWay(t))
  BY <1>2 DEF UnderWay
<1> QED  BY <1>4, <1>5 DEF t

\* A render may add the screen's own request.
LEMMA Rendered ==
  ASSUME NEW status, NEW image, NEW rest, NEW key, NEW mark,
         CallsFit(rest, asked, chatsSynced), Render(status, image, rest, key),
         chatsSynced' = chatsSynced
  PROVE  /\ CallsFit(linkCalls', asked', chatsSynced')
         /\ UnderWay(rest) => UnderWay(linkCalls')
<1>1. CASE Wanted(status, image)
  <2> DEFINE c == NewLinkCall("autoQr", "connect")
  <2>1. ~asked /\ asked' = TRUE /\ linkCalls' = Append(rest, c)
    BY <1>1 DEF Render, Wanted
  <2>2. CallFits(c, TRUE, chatsSynced) /\ c.op = "autoQr"
    BY DEF NewLinkCall, CallFits, LinkCall, Background, Statuses
  <2> HIDE DEF c
  <2>3. \A k \in DOMAIN rest : rest[k].op # "autoQr"
    BY <2>1 DEF CallsFit, CallFits
  <2>4. CallsFit(rest, TRUE, chatsSynced)
    BY DEF CallsFit, CallFits
  <2> QED  BY <2>1, <2>2, <2>3, <2>4, OneMoreCall
<1>2. CASE ~Wanted(status, image)
  BY <1>2 DEF Render
<1> QED  BY <1>1, <1>2

LEMMA ShowPhoneKept == LinkMore /\ ShowPhone => LinkMore'
<1> SUFFICES ASSUME LinkMore, ShowPhone PROVE LinkMore'
  OBVIOUS
<1>1. /\ CallsFit(linkCalls', asked', chatsSynced')
      /\ UnderWay(linkCalls) => UnderWay(linkCalls')
  BY Rendered DEF LinkMore, ShowPhone
<1> QED  BY <1>1 DEF LinkMore, Tried, ShowPhone

\* A request begins with a step of its own.
LEMMA NewCallFits ==
  ASSUME NEW op \in Buttons \cup {"poll", "autoSync"}, NEW at, NEW mark, NEW done,
         at \in {"create", "connect", "repair", "ask", "sync"},
         op \in {"sync", "autoSync"} => at = "sync"
  PROVE  /\ CallFits(NewLinkCall(op, at), mark, done)
         /\ NewLinkCall(op, at).op # "autoQr" /\ NewLinkCall(op, at).at = at
  BY DEF NewLinkCall, CallFits, LinkCall, Buttons, Background, Statuses

LEMMA PressKept == ASSUME LinkMore, NEW op \in Buttons, Press(op) PROVE LinkMore'
<1> DEFINE c == NewLinkCall(op, FirstStep(op))
<1>1. /\ FirstStep(op) \in {"create", "connect", "repair", "ask", "sync"}
      /\ op = "sync" => FirstStep(op) = "sync"
  BY DEF FirstStep, Buttons
<1>2. CallFits(c, asked, chatsSynced) /\ c.op # "autoQr"
  BY <1>1, NewCallFits DEF Buttons
<1>3. linkCalls' = Append(linkCalls, c)
      /\ UNCHANGED <<device, issued, asked, autoSynced, chatsSynced, failureTold>>
  BY DEF Press, Stay
<1> HIDE DEF c
<1>4. CallsFit(linkCalls', asked, chatsSynced) /\ (UnderWay(linkCalls) => UnderWay(linkCalls'))
  BY <1>2, <1>3, OneMoreCall DEF LinkMore
<1> QED  BY <1>3, <1>4 DEF LinkMore, Tried

LEMMA TickKept == LinkMore /\ Tick => LinkMore'
<1> SUFFICES ASSUME LinkMore, Tick PROVE LinkMore'
  OBVIOUS
<1>1. PICK op \in {"poll", "autoSync"} :
        /\ linkCalls' = Append(linkCalls, NewLinkCall(op, IF op = "poll" THEN "ask" ELSE "sync"))
        /\ op = "poll" => autoSynced' = autoSynced
  BY DEF Tick, Stay
<1>2. UNCHANGED <<device, issued, asked, chatsSynced, failureTold>>
  BY DEF Tick, Stay
<1> DEFINE c == NewLinkCall(op, IF op = "poll" THEN "ask" ELSE "sync")
<1>3. /\ CallFits(c, asked, chatsSynced) /\ c.op # "autoQr"
      /\ op = "autoSync" => TriedBy(c)
  BY NewCallFits DEF TriedBy
<1>4. linkCalls' = Append(linkCalls, c)
  BY <1>1
<1> HIDE DEF c
<1>5. /\ CallsFit(linkCalls', asked, chatsSynced)
      /\ UnderWay(linkCalls) \/ TriedBy(c) => UnderWay(linkCalls')
  BY <1>3, <1>4, OneMoreCall DEF LinkMore
<1> QED  BY <1>1, <1>2, <1>3, <1>5 DEF LinkMore, Tried

\* The API serves a request that is not a sync.
LEMMA AnswerFits ==
  ASSUME LinkMore, NEW k \in DOMAIN linkCalls, NEW from, NEW at, NEW q \in Nat,
         NEW s \in Statuses,
         Serves(k, from), Answer(k, at, q, s), from \notin {"sync", "done"},
         at \in {"connect", "repair", "done"}, linkCalls[k].op = "autoQr" => at = "done",
         device' \in Statuses, issued' \in Nat,
         UNCHANGED <<asked, autoSynced, chatsSynced, failureTold>>
  PROVE  LinkMore'
<1> DEFINE c == [linkCalls[k] EXCEPT !.at = at, !.qr = q, !.status = s]
<1>1. CallFits(linkCalls[k], asked, chatsSynced)
  BY DEF LinkMore, CallsFit
<1>2. CallFits(c, asked, chatsSynced) /\ c.op = linkCalls[k].op
  BY <1>1 DEF CallFits, LinkCall, Serves
<1>3. linkCalls' = [linkCalls EXCEPT ![k] = c]
  BY DEF Answer
<1> HIDE DEF c
<1>4. ~TriedBy(linkCalls[k])
  BY DEF Serves, TriedBy
<1>5. CallsFit(linkCalls', asked, chatsSynced) /\ (UnderWay(linkCalls) => UnderWay(linkCalls'))
  BY <1>2, <1>3, <1>4, OneCallChanges DEF LinkMore
<1> QED  BY <1>5 DEF LinkMore, Tried

LEMMA ServeKept ==
  ASSUME LinkMore, NEW k \in DOMAIN linkCalls,
         CreatePhone(k) \/ ConnectPhone(k) \/ RepairPhone(k) \/ PhoneStatus(k)
  PROVE  LinkMore'
<1>0. /\ device \in Statuses /\ issued \in Nat
      /\ {"none", "qr_required", "connected", "disconnected"} \subseteq Statuses
      /\ linkCalls[k].op = "autoQr" => linkCalls[k].at \in {"connect", "done"}
  BY DEF LinkMore, CallsFit, CallFits, Statuses
<1>1. CASE CreatePhone(k)
  <2>1. device' \in Statuses /\ issued' = issued /\ Serves(k, "create") /\ Answer(k, "connect", 0, "none")
    BY <1>0, <1>1 DEF CreatePhone
  <2>2. linkCalls[k].op # "autoQr"
    BY <1>0, <2>1 DEF Serves
  <2> QED  BY <1>0, <1>1, <2>1, <2>2, AnswerFits DEF CreatePhone
<1>2. CASE ConnectPhone(k)
  <2>1. PICK at \in {"repair", "done"}, q \in Nat :
          /\ Answer(k, at, q, "none") /\ (linkCalls[k].op # "link" => at = "done")
          /\ device' \in Statuses /\ issued' \in Nat
    BY <1>0, <1>2 DEF ConnectPhone
  <2> QED  BY <1>0, <1>2, <2>1, AnswerFits DEF ConnectPhone
<1>3. CASE RepairPhone(k)
  <2>1. PICK q \in Nat : Answer(k, "done", q, "none") /\ device' \in Statuses /\ issued' \in Nat
    BY <1>0, <1>3 DEF RepairPhone
  <2> QED  BY <1>0, <1>3, <2>1, AnswerFits DEF RepairPhone
<1>4. CASE PhoneStatus(k)
  BY <1>0, <1>4, AnswerFits DEF PhoneStatus
<1> QED  BY <1>1, <1>2, <1>3, <1>4

\* A sync that succeeds.
LEMMA SyncKept == ASSUME LinkMore, NEW k \in DOMAIN linkCalls, SyncGroups(k) PROVE LinkMore'
<1> DEFINE c == [linkCalls[k] EXCEPT !.at = "done", !.qr = 0, !.status = "none"]
<1>1. CallsFit(linkCalls, asked, TRUE)
  BY DEF LinkMore, CallsFit, CallFits
<1>2. CallFits(c, asked, TRUE) /\ c.op = linkCalls[k].op
  BY <1>1 DEF CallsFit, CallFits, LinkCall, Statuses, SyncGroups, Serves
<1>3. linkCalls' = [linkCalls EXCEPT ![k] = c] /\ chatsSynced' = TRUE
      /\ UNCHANGED <<issued, asked>>
  BY DEF SyncGroups, Answer
<1> HIDE DEF c
<1>4. CallsFit(linkCalls', asked, TRUE)
  BY <1>1, <1>2, <1>3, OneCallChanges
<1>5. device' \in Statuses
  BY DEF SyncGroups, Statuses
<1> QED  BY <1>3, <1>4, <1>5 DEF LinkMore, Tried

LEMMA FailKept ==
  ASSUME LinkMore, NEW k \in DOMAIN linkCalls, SyncRefused(k) \/ LinkCallFails(k)
  PROVE  LinkMore'
<1> DEFINE c == [linkCalls[k] EXCEPT !.ok = FALSE]
<1>1. CallFits(linkCalls[k], asked, chatsSynced)
  BY DEF LinkMore, CallsFit
<1>2. CallFits(c, asked, chatsSynced) /\ c.op = linkCalls[k].op /\ TriedBy(c)
  BY <1>1 DEF CallFits, LinkCall, TriedBy
<1>3. linkCalls' = [linkCalls EXCEPT ![k] = c]
      /\ UNCHANGED <<device, issued, asked, autoSynced, chatsSynced, failureTold>>
  BY DEF SyncRefused, LinkCallFails
<1> HIDE DEF c
<1>4. CallsFit(linkCalls', asked, chatsSynced) /\ UnderWay(linkCalls')
  BY <1>2, <1>3, OneCallChanges DEF LinkMore
<1> QED  BY <1>3, <1>4 DEF LinkMore, Tried

LEMMA ShowQrKept == ASSUME LinkMore, NEW k \in DOMAIN linkCalls, ShowQr(k) PROVE LinkMore'
<1> DEFINE rest == RemoveAt(linkCalls, k)
<1>1. ~TriedBy(linkCalls[k])
  BY DEF ShowQr, Done, TriedBy
<1>2. /\ CallsFit(rest, asked, chatsSynced)
      /\ linkCalls[k].op = "autoQr" => \A i \in DOMAIN rest : rest[i].op # "autoQr"
      /\ UnderWay(linkCalls) => UnderWay(rest)
  BY <1>1, OneCallLess DEF LinkMore
<1>3. UNCHANGED <<device, issued, autoSynced, chatsSynced, failureTold>>
  BY DEF ShowQr
<1>4. \/ linkCalls[k].op = "autoQr" /\ linkCalls' = rest /\ asked' = FALSE
      \/ Render(shownPhone, linkCalls[k].qr, rest, "none")
  BY DEF ShowQr
<1> HIDE DEF rest
<1>5. CASE linkCalls[k].op = "autoQr" /\ linkCalls' = rest /\ asked' = FALSE
  <2>1. CallsFit(linkCalls', FALSE, chatsSynced)
    BY <1>2, <1>5 DEF CallsFit, CallFits
  <2> QED  BY <1>2, <1>3, <1>5, <2>1 DEF LinkMore, Tried
<1>6. CASE Render(shownPhone, linkCalls[k].qr, rest, "none")
  <2>1. /\ CallsFit(linkCalls', asked', chatsSynced')
        /\ UnderWay(rest) => UnderWay(linkCalls')
    BY <1>2, <1>3, <1>6, Rendered
  <2> QED  BY <1>2, <1>3, <2>1 DEF LinkMore, Tried
<1> QED  BY <1>4, <1>5, <1>6

LEMMA ShowStatusKept ==
  ASSUME LinkMore, NEW k \in DOMAIN linkCalls, ShowStatus(k)
  PROVE  LinkMore'
<1> DEFINE rest == RemoveAt(linkCalls, k)
           c == [linkCalls[k] EXCEPT !.at = "sync", !.op = IF @ = "poll" THEN "autoSync" ELSE @,
                                     !.status = "none"]
<1>1. ~TriedBy(linkCalls[k]) /\ CallFits(linkCalls[k], asked, chatsSynced)
      /\ linkCalls[k].op \in {"poll", "status"}
  BY DEF ShowStatus, Done, TriedBy, LinkMore, CallsFit
<1>2. UNCHANGED <<device, issued, asked, chatsSynced, failureTold>>
  BY DEF ShowStatus, Stay
<1>3. CASE SyncsAfter(linkCalls[k].status)
  <2>1. CallFits(c, asked, chatsSynced) /\ TriedBy(c) /\ c.op # "autoQr"
    BY <1>1 DEF CallFits, LinkCall, TriedBy, Buttons, Background, Statuses
  <2>2. linkCalls' = [linkCalls EXCEPT ![k] = c]
    BY <1>3 DEF ShowStatus
  <2> HIDE DEF c
  <2>3. CallsFit(linkCalls', asked, chatsSynced) /\ UnderWay(linkCalls')
    BY <2>1, <2>2, OneCallChanges DEF LinkMore
  <2> QED  BY <1>2, <2>3 DEF LinkMore, Tried
<1>4. CASE ~SyncsAfter(linkCalls[k].status)
  <2>1. linkCalls' = rest
    BY <1>4 DEF ShowStatus, Stay
  <2>2. autoSynced' => autoSynced
    BY <1>4 DEF ShowStatus, SyncsAfter
  <2>3. CallsFit(rest, asked, chatsSynced) /\ (UnderWay(linkCalls) => UnderWay(rest))
    BY <1>1, OneCallLess DEF LinkMore
  <2> QED  BY <1>2, <2>1, <2>2, <2>3 DEF LinkMore, Tried
<1> QED  BY <1>3, <1>4

LEMMA EndKept ==
  ASSUME LinkMore, NEW k \in DOMAIN linkCalls, Synced(k) \/ TellFailure(k)
  PROVE  LinkMore'
<1> DEFINE rest == RemoveAt(linkCalls, k)
<1>1. /\ CallsFit(rest, asked, chatsSynced)
      /\ linkCalls[k].op = "autoQr" => \A i \in DOMAIN rest : rest[i].op # "autoQr"
  BY OneCallLess DEF LinkMore
<1>2. linkCalls' = rest /\ UNCHANGED <<device, issued, chatsSynced>>
  BY DEF Synced, TellFailure, Stay
<1> HIDE DEF rest
<1>3. CASE Synced(k)
  <2>1. chatsSynced /\ asked' = asked
    BY <1>3 DEF Synced, Done, Stay, LinkMore, CallsFit, CallFits
  <2> QED  BY <1>1, <1>2, <2>1 DEF LinkMore, Tried
<1>4. CASE TellFailure(k)
  <2>1. failureTold' = TRUE /\ asked' = (asked /\ linkCalls[k].op # "autoQr")
    BY <1>4 DEF TellFailure
  <2>2. CallsFit(rest, asked', chatsSynced)
    BY <1>1, <2>1 DEF CallsFit, CallFits
  <2> QED  BY <1>2, <2>1, <2>2 DEF LinkMore, Tried
<1> QED  BY <1>3, <1>4

LEMMA LinkInitHolds == LinkInit => LinkMore
<1> SUFFICES ASSUME LinkInit PROVE LinkMore
  OBVIOUS
<1>1. linkCalls = <<>> /\ <<>> \in Seq(LinkCall) /\ DOMAIN linkCalls = {}
  BY DEF LinkInit
<1>2. CallsFit(linkCalls, asked, chatsSynced)
  BY <1>1 DEF CallsFit, AutoOnce
<1> QED  BY <1>2 DEF LinkInit, LinkMore, Statuses

LEMMA LinkStep == LinkMore /\ [LinkNext]_linkVars => LinkMore'
<1> SUFFICES ASSUME LinkMore, [LinkNext]_linkVars PROVE LinkMore'
  OBVIOUS
<1>1. CASE ReadPhone \/ PhoneMoves \/ UNCHANGED linkVars
  <2>1. UNCHANGED <<issued, linkCalls, asked, autoSynced, chatsSynced, failureTold>>
    BY <1>1 DEF ReadPhone, PhoneMoves, linkVars
  <2>2. device' \in Statuses
    BY <1>1 DEF LinkMore, Statuses, ReadPhone, PhoneMoves, linkVars
  <2> QED  BY <2>1, <2>2 DEF LinkMore, Tried
<1> QED  BY <1>1, ShowPhoneKept, TickKept, PressKept, ServeKept, SyncKept, FailKept, ShowQrKept,
            ShowStatusKept, EndKept
         DEF LinkNext

-----------------------------------------------------------------------------
(* What is done with a message. *)

PreviewOf(c) == \E r \in demanded : r.op = "preview" /\ r.live /\ r.chat = c

RequestsOK == demanded \subseteq ActionRequest /\ demands \in 0 .. MaxAsked
ActionsMore == /\ onScreen \in PaneChats /\ files \in [PaneChats -> {"pending", "downloaded"}]
               /\ menu \in Bubbles \cup {NoBubble} /\ picker \in Bubbles \cup {NoBubble}
               /\ RequestsOK /\ ActionsInv

\* A request is made for a message of the kind its operation is about.
LEMMA DemandFits ==
  ASSUME ActionsMore, NEW b \in Bubbles, NEW op \in {"preview", "view", "react", "ticket"},
         Demand(op, b)
  PROVE  /\ RequestsOK'
         /\ demanded \subseteq demanded'
         /\ op = "preview" => \E r \in demanded' : r.op = "preview" /\ r.live /\ r.chat = onScreen
<1> DEFINE r == [n |-> demands + 1, op |-> op, of |-> b, chat |-> onScreen, live |-> TRUE]
<1>1. demands + 1 \in 1 .. MaxAsked /\ demands + 1 \in 0 .. MaxAsked
  BY ActionBounds DEF ActionsMore, RequestsOK, Demand
<1>2. r \in ActionRequest
  BY <1>1 DEF ActionsMore, ActionRequest
<1>3. demanded' = demanded \cup {r} /\ demands' = demands + 1
  BY DEF Demand
<1>4. r.op = op /\ r.live /\ r.chat = onScreen
  OBVIOUS
<1> HIDE DEF r
<1> QED  BY <1>1, <1>2, <1>3, <1>4 DEF ActionsMore, RequestsOK

LEMMA SwitchKept == ASSUME ActionsMore, SwitchChat PROVE ActionsMore'
<1> DEFINE cancelled == {[r EXCEPT !.live = FALSE] : r \in demanded}
<1>1. PICK c \in PaneChats :
        /\ onScreen' = c
        /\ IF files[c] = "downloaded"
            THEN /\ demands < MaxAsked /\ demands' = demands + 1
                 /\ fileView' = "loading"
                 /\ demanded' = cancelled \cup
                                  {[n |-> demands + 1, op |-> "preview", of |-> Mount(c),
                                    chat |-> c, live |-> TRUE]}
            ELSE /\ fileView' = "idle" /\ demanded' = cancelled
                 /\ UNCHANGED demands
  BY DEF SwitchChat
<1>2. cancelled \subseteq ActionRequest
  BY DEF ActionsMore, RequestsOK, ActionRequest
<1>3. Mount(c) \in Bubbles
  BY DEF Mount, Bubbles
<1>4. /\ files' = files /\ tickets' = tickets
      /\ menu' \in Bubbles \cup {NoBubble} /\ picker' \in Bubbles \cup {NoBubble}
  BY DEF ActionsMore, SwitchChat
<1>5. CASE files[c] = "downloaded"
  <2> DEFINE r == [n |-> demands + 1, op |-> "preview", of |-> Mount(c), chat |-> c, live |-> TRUE]
  <2>1. demands + 1 \in 1 .. MaxAsked /\ demands + 1 \in 0 .. MaxAsked
    BY <1>1, <1>5, ActionBounds DEF ActionsMore, RequestsOK
  <2>2. r \in ActionRequest
    BY <1>3, <2>1 DEF ActionRequest
  <2>3. demanded' = cancelled \cup {r} /\ demands' = demands + 1 /\ fileView' = "loading"
    BY <1>1, <1>5
  <2>4. r.op = "preview" /\ r.live /\ r.chat = c
    OBVIOUS
  <2> HIDE DEF r, cancelled
  <2>5. RequestsOK'
    BY <1>2, <2>1, <2>2, <2>3 DEF RequestsOK
  <2>6. PreviewsAreAnswered'
    BY <1>1, <2>3, <2>4 DEF PreviewsAreAnswered
  <2> QED  BY <1>1, <1>4, <2>5, <2>6 DEF ActionsMore, ActionsInv, TicketsOfTheirChannel
<1>6. CASE files[c] # "downloaded"
  <2>1. demanded' = cancelled /\ demands' = demands /\ fileView' = "idle"
    BY <1>1, <1>6
  <2> HIDE DEF cancelled
  <2>2. RequestsOK'
    BY <1>2, <2>1 DEF ActionsMore, RequestsOK
  <2>3. PreviewsAreAnswered'
    BY <1>1, <1>4, <1>6, <2>1 DEF PreviewsAreAnswered
  <2> QED  BY <1>1, <1>4, <2>2, <2>3 DEF ActionsMore, ActionsInv, TicketsOfTheirChannel
<1> QED  BY <1>5, <1>6

\* A downloaded file makes the preview of the chat on screen ask for it.
LEMMA FileKept ==
  ASSUME ActionsMore, NEW c \in PaneChats, FileArrives(c)
  PROVE  ActionsMore'
<1>1. /\ files' = [files EXCEPT ![c] = "downloaded"] /\ files[c] = "pending"
      /\ UNCHANGED <<onScreen, menu, picker, tickets>>
  BY DEF FileArrives
<1>2. files' \in [PaneChats -> {"pending", "downloaded"}]
  BY <1>1 DEF ActionsMore
<1>3. CASE c = onScreen
  <2>1. fileView' = "loading" /\ Demand("preview", Mount(c)) /\ Mount(c) \in Bubbles
    BY <1>3 DEF FileArrives, EffectRuns, Mount, Bubbles, ActionsMore
  <2>2. RequestsOK' /\ \E r \in demanded' : r.op = "preview" /\ r.live /\ r.chat = onScreen
    BY <2>1, DemandFits
  <2> QED  BY <1>1, <1>2, <2>1, <2>2
           DEF ActionsMore, ActionsInv, TicketsOfTheirChannel, PreviewsAreAnswered
<1>4. CASE c # onScreen
  <2>1. UNCHANGED <<fileView, demanded, demands>>
    BY <1>4 DEF FileArrives, EffectRuns
  <2>2. files'[onScreen] = files[onScreen]
    BY <1>1, <1>4 DEF ActionsMore
  <2> QED  BY <1>1, <1>2, <2>1, <2>2
           DEF ActionsMore, ActionsInv, TicketsOfTheirChannel, PreviewsAreAnswered, RequestsOK
<1> QED  BY <1>3, <1>4

\* What is asked for from the menu or the picker leaves the previews alone.
LEMMA DemandKept ==
  ASSUME ActionsMore, viewAttachment \/ CreateTicket \/ PickReaction
  PROVE  ActionsMore'
<1>1. PICK b \in Bubbles, op \in {"view", "react", "ticket"} : Demand(op, b)
  BY DEF ActionsMore, viewAttachment, CreateTicket, PickReaction
<1>2. RequestsOK' /\ demanded \subseteq demanded'
  BY <1>1, DemandFits
<1>3. /\ UNCHANGED <<onScreen, files, fileView, tickets>>
      /\ menu' \in Bubbles \cup {NoBubble} /\ picker' \in Bubbles \cup {NoBubble}
  BY DEF ActionsMore, viewAttachment, CreateTicket, PickReaction
<1> QED  BY <1>2, <1>3 DEF ActionsMore, ActionsInv, TicketsOfTheirChannel, PreviewsAreAnswered

LEMMA AnswerKept ==
  ASSUME ActionsMore, PreviewAnswer \/ TicketAnswer \/ ViewAnswer \/ ReactAnswer
  PROVE  ActionsMore'
<1>1. CASE PreviewAnswer
  <2>1. PICK r \in demanded :
          /\ r.op = "preview" /\ demanded' = demanded \ {r}
          /\ IF r.live THEN fileView' \in {"ready", "error"} ELSE fileView' = fileView
    BY <1>1 DEF PreviewAnswer
  <2>2. UNCHANGED <<onScreen, files, tickets, menu, picker, demands>>
    BY <1>1 DEF PreviewAnswer
  <2>3. PreviewsAreAnswered'
    BY <2>1, <2>2 DEF ActionsMore, ActionsInv, PreviewsAreAnswered
  <2> QED  BY <2>1, <2>2, <2>3 DEF ActionsMore, ActionsInv, TicketsOfTheirChannel, RequestsOK
<1>2. CASE TicketAnswer \/ ViewAnswer \/ ReactAnswer
  <2>1. PICK r \in demanded : r.op # "preview" /\ demanded' = demanded \ {r}
    BY <1>2 DEF TicketAnswer, ViewAnswer, ReactAnswer
  <2>2. UNCHANGED <<onScreen, files, fileView, demands>>
    BY <1>2 DEF TicketAnswer, ViewAnswer, ReactAnswer
  <2>3. menu' \in Bubbles \cup {NoBubble} /\ picker' \in Bubbles \cup {NoBubble}
    BY <1>2 DEF ActionsMore, TicketAnswer, ViewAnswer, ReactAnswer
  <2>4. PreviewsAreAnswered'
    BY <2>1, <2>2 DEF ActionsMore, ActionsInv, PreviewsAreAnswered
  <2>5. TicketsOfTheirChannel'
    BY <1>2 DEF ActionsMore, ActionsInv, TicketsOfTheirChannel, TicketAnswer, ViewAnswer,
                ReactAnswer, SourceFound
  <2> QED  BY <2>1, <2>2, <2>3, <2>4, <2>5 DEF ActionsMore, ActionsInv, RequestsOK
<1> QED  BY <1>1, <1>2

LEMMA ActionsInitHolds == ActionsInit => ActionsMore
<1> SUFFICES ASSUME ActionsInit PROVE ActionsMore
  OBVIOUS
<1>1. 0 \in 0 .. MaxAsked
  BY ActionBounds
<1>2. RequestsOK
  BY <1>1 DEF ActionsInit, RequestsOK
<1>3. ActionsInv
  BY DEF ActionsInit, ActionsInv, TicketsOfTheirChannel, PreviewsAreAnswered
<1> QED  BY <1>2, <1>3 DEF ActionsInit, ActionsMore

LEMMA ActionsStep == ActionsMore /\ [ActionsNext]_actionVars => ActionsMore'
<1> SUFFICES ASSUME ActionsMore, [ActionsNext]_actionVars PROVE ActionsMore'
  OBVIOUS
<1>1. CASE OpenMenu \/ Escape \/ CloseMenu \/ ChooseReact \/ QuoteMessage
  <2>1. UNCHANGED <<onScreen, files, fileView, tickets, demanded, demands>>
    BY <1>1 DEF OpenMenu, Escape, CloseMenu, ChooseReact, QuoteMessage
  <2>2. menu' \in Bubbles \cup {NoBubble} /\ picker' \in Bubbles \cup {NoBubble}
    BY <1>1 DEF ActionsMore, OpenMenu, Escape, CloseMenu, ChooseReact, QuoteMessage, Bubbles
  <2> QED  BY <2>1, <2>2 DEF ActionsMore, ActionsInv, TicketsOfTheirChannel, PreviewsAreAnswered,
                             RequestsOK
<1>2. CASE UNCHANGED actionVars
  BY <1>2 DEF actionVars, ActionsMore, ActionsInv, TicketsOfTheirChannel, PreviewsAreAnswered,
              RequestsOK
<1> QED  BY <1>1, <1>2, SwitchKept, FileKept, DemandKept, AnswerKept DEF ActionsNext

-----------------------------------------------------------------------------
(* What is looked up. *)

LookupFields == {"n", "word", "live", "read", "things"}

\* What is under way was asked for with the words that its list will be shown under, and the
\* search page asks for one thing at a time.
LookupsFit ==
  /\ \A l \in lookups : DOMAIN l = LookupFields
  /\ box \in Boxes
  /\ box = "contacts" => ~loading
  /\ box # "search" => \A l \in lookups : l.live => l.word = typed
  /\ box = "search" => /\ ~debounce
                       /\ \A l \in lookups : l.live => loading /\ l.word = submitted
                       /\ \A l, k \in lookups : l.live /\ k.live => l = k
LookupsMore == LookupsFit /\ LookupsInv

LEMMA LookupsInitHolds == LookupsInit => LookupsMore
<1> SUFFICES ASSUME LookupsInit PROVE LookupsMore
  OBVIOUS
<1>1. /\ box \in Boxes /\ lookups = {} /\ found.things = {} /\ found.word = typed
      /\ submitted = typed
  BY DEF LookupsInit, NothingFound
<1>2. (debounce <=> box = "replies") /\ (loading <=> box = "replies")
  BY Zenon DEF LookupsInit
<1>3. LookupsFit
  BY <1>1, <1>2 DEF LookupsFit, Boxes
<1>4. ListsAreOfTheirWords
  BY <1>1 DEF ListsAreOfTheirWords, Boxes
<1> QED  BY <1>2, <1>3, <1>4 DEF LookupsMore, LookupsInv, LoadingEnds, Waiting

\* The effect of a box that asks by itself forgets what was asked before.
LEMMA LookUpKept ==
  ASSUME LookupsMore, NEW word, LookUp(word), typed' = word, box # "search",
         UNCHANGED <<box, failed, submitted>>
  PROVE  LookupsMore'
<1>1. \A l \in lookups' : DOMAIN l = LookupFields /\ ~l.live
  BY DEF LookUp, Cancelled, LookupsMore, LookupsFit, LookupFields
<1>2. CASE box = "contacts"
  <2>1. /\ box' = "contacts" /\ ~loading' /\ (word # NoWord => debounce')
        /\ word = NoWord => found' = NothingFound
    BY <1>2 DEF LookUp, LookupsMore, LookupsFit
  <2>2. LookupsFit'
    BY <1>1, <2>1 DEF LookupsFit, Boxes
  <2>3. Waiting' \/ found'.things = {}
    BY <2>1 DEF Waiting, NothingFound
  <2>4. ListsAreOfTheirWords'
    BY <2>1, <2>3 DEF ListsAreOfTheirWords
  <2> QED  BY <2>1, <2>2, <2>4 DEF LookupsMore, LookupsInv, LoadingEnds
<1>3. CASE box # "contacts"
  <2>1. box' = "replies" /\ debounce' /\ loading'
    BY <1>3 DEF LookUp, LookupsMore, LookupsFit, Boxes
  <2>2. LookupsFit'
    BY <1>1, <2>1 DEF LookupsFit, Boxes
  <2> QED  BY <2>1, <2>2 DEF LookupsMore, LookupsInv, ListsAreOfTheirWords, LoadingEnds, Waiting
<1> QED  BY <1>2, <1>3

\* The answer that is read takes the place of the request.
LEMMA ReadKept == ASSUME LookupsMore, NEW l \in lookups, ReadThings(l) PROVE LookupsMore'
<1>1. PICK S : /\ lookups' = (lookups \ {l}) \cup {[l EXCEPT !.read = TRUE, !.things = S]}
               /\ UNCHANGED <<box, typed, debounce, found, loading, failed, submitted, reach, tries>>
  BY DEF ReadThings
<1> DEFINE r == [l EXCEPT !.read = TRUE, !.things = S]
<1>2. DOMAIN r = LookupFields /\ r.live = l.live /\ r.word = l.word
  BY DEF LookupsMore, LookupsFit, LookupFields
<1>3. lookups' = (lookups \ {l}) \cup {r}
  BY <1>1
<1> HIDE DEF r
<1>4. LookupsFit'
  BY <1>1, <1>2, <1>3 DEF LookupsMore, LookupsFit
<1>5. Waiting' <=> Waiting
  BY <1>1, <1>2, <1>3 DEF Waiting
<1> QED  BY <1>1, <1>4, <1>5 DEF LookupsMore, LookupsInv, ListsAreOfTheirWords, LoadingEnds

\* A request that is made joins those under way.
LEMMA NewLookupFits ==
  LET l == NewLookup(typed) IN DOMAIN l = LookupFields /\ l.live /\ l.word = typed
  BY DEF NewLookup, LookupFields

LEMMA AskedKept == ASSUME LookupsMore, DebounceFires \/ submitSearch PROVE LookupsMore'
<1> DEFINE l == NewLookup(typed)
<1>1. DOMAIN l = LookupFields /\ l.live /\ l.word = typed
  BY NewLookupFits
<1> HIDE DEF l
<1>2. lookups' = lookups \cup {l} /\ UNCHANGED <<box, typed, found>>
  BY DEF DebounceFires, submitSearch, l
<1>3. Waiting'
  BY <1>1, <1>2 DEF Waiting
<1>4. CASE DebounceFires
  <2>1. box # "search" /\ UNCHANGED <<loading, failed, submitted>>
    BY <1>4 DEF DebounceFires, LookupsMore, LookupsFit
  <2> QED  BY <1>1, <1>2, <1>3, <2>1
           DEF LookupsMore, LookupsFit, LookupsInv, ListsAreOfTheirWords, LoadingEnds, Boxes
<1>5. CASE submitSearch
  <2>1. /\ box = "search" /\ ~loading /\ submitted' = typed /\ loading' = TRUE /\ debounce' = debounce
    BY <1>5 DEF submitSearch, Submittable
  <2>2. \A k \in lookups : ~k.live
    BY <2>1 DEF LookupsMore, LookupsFit
  <2>3. LookupsFit'
    BY <1>1, <1>2, <2>1, <2>2 DEF LookupsMore, LookupsFit
  <2> QED  BY <1>2, <1>3, <2>1, <2>3 DEF LookupsMore, LookupsInv, ListsAreOfTheirWords, LoadingEnds
<1> QED  BY <1>4, <1>5

LEMMA FoundKept ==
  ASSUME LookupsMore, NEW l \in lookups, LookupAnswer(l) \/ LookupFails(l)
  PROVE  LookupsMore'
<1>1. lookups' = lookups \ {l} /\ UNCHANGED <<box, typed, debounce, submitted>>
  BY DEF LookupAnswer, LookupFails
<1>2. CASE l.live
  <2>1. /\ loading' = FALSE
        /\ \/ found' = [word |-> l.word, things |-> l.things] /\ failed' = failed
           \/ box = "contacts" /\ found' = NothingFound
           \/ box # "contacts" /\ failed' = TRUE
    BY <1>2 DEF LookupAnswer, LookupFails, Heard, LoadingAfter
  <2>2. box # "search" => l.word = typed
    BY <1>2 DEF LookupsMore, LookupsFit
  <2>3. box = "search" => l.word = submitted /\ \A k \in lookups' : ~k.live
    BY <1>1, <1>2 DEF LookupsMore, LookupsFit
  <2>4. LookupsFit'
    BY <1>1, <2>1, <2>3 DEF LookupsMore, LookupsFit
  <2>5. \/ found'.word = l.word
        \/ box = "contacts" /\ found'.things = {}
        \/ box # "contacts" /\ failed'
    BY <2>1 DEF NothingFound
  <2>6. box \in Boxes
    BY DEF LookupsMore, LookupsFit
  <2>7. ListsAreOfTheirWords'
    BY <1>1, <2>2, <2>3, <2>5, <2>6 DEF Boxes, ListsAreOfTheirWords
  <2> QED  BY <2>1, <2>4, <2>7 DEF LookupsMore, LookupsInv, LoadingEnds
<1>3. CASE ~l.live
  <2>1. found' = found /\ (loading' <=> loading) /\ (failed' <=> failed)
    <3>1. CASE LookupAnswer(l)
      BY <1>3, <3>1 DEF LookupAnswer, Heard
    <3>2. CASE LookupFails(l)
      <4>1. /\ found' = found /\ failed' = (failed \/ (l.live /\ box # "contacts"))
            /\ loading' = (loading /\ ~l.live)
        BY <1>3, <3>2 DEF LookupFails, LoadingAfter
      <4> QED  BY <1>3, <4>1, Zenon
    <3> QED  BY <3>1, <3>2
  <2>2. Waiting' <=> Waiting
    BY <1>1, <1>3 DEF Waiting
  <2>3. LookupsFit'
    BY <1>1, <2>1 DEF LookupsMore, LookupsFit
  <2> QED  BY <1>1, <2>1, <2>2, <2>3 DEF LookupsMore, LookupsInv, ListsAreOfTheirWords, LoadingEnds
<1> QED  BY <1>2, <1>3

LEMMA LookupsStep == LookupsMore /\ [LookupsNext]_lookupVars => LookupsMore'
<1> SUFFICES ASSUME LookupsMore, [LookupsNext]_lookupVars PROVE LookupsMore'
  OBVIOUS
<1>1. CASE Type
  <2>1. PICK word \in Texts \ {typed} :
          /\ typed' = word
          /\ IF box = "search" THEN UNCHANGED <<lookups, debounce, found, loading>> ELSE LookUp(word)
    BY <1>1 DEF Type
  <2>2. UNCHANGED <<box, failed, submitted>>
    BY <1>1 DEF Type
  <2>3. CASE box = "search"
    BY <2>1, <2>2, <2>3 DEF LookupsMore, LookupsFit, LookupsInv, ListsAreOfTheirWords, LoadingEnds,
                            Waiting
  <2> QED  BY <2>1, <2>2, <2>3, LookUpKept
<1>2. CASE Rerender
  BY <1>2, LookUpKept DEF Rerender
<1>3. CASE pickContact
  BY <1>3, LookUpKept DEF pickContact
<1>4. CASE ReachChanges \/ UNCHANGED lookupVars
  <2>1. UNCHANGED <<box, typed, debounce, lookups, found, loading, failed, submitted>>
    BY <1>4 DEF ReachChanges, lookupVars
  <2>2. LookupsFit' /\ (Waiting' <=> Waiting)
    BY <2>1 DEF LookupsMore, LookupsFit, Waiting
  <2>3. ListsAreOfTheirWords' /\ LoadingEnds'
    BY <2>1, <2>2 DEF LookupsMore, LookupsInv, ListsAreOfTheirWords, LoadingEnds
  <2> QED  BY <2>2, <2>3 DEF LookupsMore, LookupsInv
<1> QED  BY <1>1, <1>2, <1>3, <1>4, AskedKept, ReadKept, FoundKept DEF LookupsNext

-----------------------------------------------------------------------------
(* The notification centre.                                                *)

\* The notifications are those of the newest events, in the order of the news: g says where
\* each of them was heard.  Only a full centre leaves out news, and the oldest.
Follows(g) ==
  /\ g \in [1 .. Len(alerts) -> News]
  /\ \A i, j \in 1 .. Len(alerts) : i < j => g[i] < g[j]
  /\ \A i \in 1 .. Len(alerts) : alerts[i].key = heard[g[i]]
  /\ \A k \in News : \/ \E i \in 1 .. Len(alerts) : g[i] = k
                     \/ /\ Len(alerts) = MaxAlerts
                        /\ \A i \in 1 .. Len(alerts) : g[i] < k

AlertsFit == /\ alerts \in Seq(Alert) /\ Len(alerts) <= MaxAlerts
             /\ heard \in Seq(EventKeys)
AlertsMore == AlertsFit /\ \E g : Follows(g)

LEMMA NewsAreHeard ==
  ASSUME AlertsFit
  PROVE  /\ Len(heard) \in Nat /\ DOMAIN heard = 1 .. Len(heard) /\ IsFiniteSet(News)
         /\ News \subseteq 1 .. Len(heard)
         /\ \A i \in 1 .. Len(heard) : heard[i] \in EventKeys
         /\ \A j, k \in News : heard[j] = heard[k] => j = k
         /\ Len(alerts) \in Nat /\ DOMAIN alerts = 1 .. Len(alerts)
         /\ \A i \in 1 .. Len(alerts) : alerts[i] \in Alert
<1>1. /\ Len(heard) \in Nat /\ DOMAIN heard = 1 .. Len(heard)
      /\ \A i \in 1 .. Len(heard) : heard[i] \in EventKeys
  BY LenProperties DEF AlertsFit
<1>2. /\ Len(alerts) \in Nat /\ DOMAIN alerts = 1 .. Len(alerts)
      /\ \A i \in 1 .. Len(alerts) : alerts[i] \in Alert
  BY LenProperties DEF AlertsFit
<1>3. News \in SUBSET (1 .. Len(heard))
  BY <1>1 DEF News
<1>4. IsFiniteSet(News)
  <2>1. IsFiniteSet(1 .. Len(heard))
    BY <1>1, FS_Interval
  <2> QED  BY <1>3, <2>1, FS_Subset
<1>5. ASSUME NEW j \in News, NEW k \in News, heard[j] = heard[k] PROVE j = k
  <2>1. j \in 1 .. Len(heard) /\ k \in 1 .. Len(heard)
    BY <1>3
  <2>2. ~(j < k) /\ ~(k < j)
    BY <1>1, <1>5, <2>1 DEF News
  <2> QED  BY <1>1, <2>1, <2>2
<1> QED  BY <1>1, <1>2, <1>3, <1>4, <1>5

\* So they are the latest.
LEMMA FollowingIsLatest ==
  ASSUME AlertsFit, NEW g, Follows(g)
  PROVE  AlertsAreLatest
<1> DEFINE n == Len(alerts)
           R == {g[i] : i \in 1 .. n}
           kept == {k \in News : Before(News, k) < MaxAlerts}
<1>1. n \in Nat /\ n <= MaxAlerts /\ MaxAlerts \in Nat
  BY NewsAreHeard, InboxAssumption DEF AlertsFit
<1>2. /\ g \in [1 .. n -> Nat] /\ \A i, j \in 1 .. n : i < j => g[i] < g[j]
      /\ R \in SUBSET News /\ R \in SUBSET Nat /\ News \in SUBSET Nat /\ IsFiniteSet(News)
  <2>1. News \in SUBSET Nat /\ IsFiniteSet(News)
    BY NewsAreHeard
  <2> QED  BY <2>1 DEF Follows
<1>3. IsFiniteSet(R) /\ Cardinality(R) = n /\ \A i \in 1 .. n : Ascending(R)[i] = g[i]
  BY <1>1, <1>2, AscendingIsUnique
<1>4. ASSUME NEW k \in R PROVE k \in kept
  <2>1. PICK i \in 1 .. n : g[i] = k
    OBVIOUS
  <2>2. \A y \in News : y < k => y \in R
    <3> SUFFICES ASSUME NEW y \in News, y < k PROVE y \in R
      OBVIOUS
    <3>1. ~(k < y)
      BY <1>2
    <3> QED  BY <2>1, <3>1 DEF Follows
  <2>3. Before(News, k) = Before(R, k)
    BY <1>2, <2>2, SamePlace
  <2>4. Before(R, k) = i - 1
    <3>1. Before(R, Ascending(R)[i]) = i - 1
      BY <1>2, <1>3, AscendingHolds
    <3> QED  BY <1>3, <2>1, <3>1
  <2> QED  BY <1>1, <1>2, <2>3, <2>4
<1>5. ASSUME NEW k \in kept PROVE k \in R
  <2>1. SUFFICES ASSUME k \notin R PROVE FALSE
    OBVIOUS
  <2>2. n = MaxAlerts /\ \A i \in 1 .. n : g[i] < k
    BY <2>1 DEF Follows
  <2>3. \A y \in R : y < k
    BY <2>2
  <2>4. Before(News, k) < MaxAlerts
    OBVIOUS
  <2> HIDE DEF R, kept
  <2>5. Cardinality(R) <= Before(News, k) /\ Before(News, k) \in Nat
    BY <1>2, <2>3, MoreBefore
  <2> QED  BY <1>1, <1>3, <2>2, <2>4, <2>5
<1>6. kept = R
  BY <1>2, <1>4, <1>5
<1>7. Latest(MaxAlerts) = [i \in 1 .. n |-> heard[g[i]]]
  <2>1. Latest(MaxAlerts) = [i \in 1 .. Cardinality(kept) |-> heard[Ascending(kept)[i]]]
    BY DEF Latest
  <2> HIDE DEF R, kept
  <2> QED  BY <1>3, <1>6, <2>1
<1> QED  BY <1>7, NewsAreHeard DEF AlertsAreLatest, Follows

\* What is taken out by its key was there once.
LEMMA OneIsReplaced ==
  ASSUME AlertsFit, NEW g, Follows(g), NEW key \in EventKeys
  PROVE  LET T == {a \in Alert : a.key # key} IN
         /\ PlacesOf(alerts, T) \subseteq 1 .. Len(alerts) /\ IsFiniteSet(PlacesOf(alerts, T))
         /\ Cardinality(PlacesOf(alerts, T)) \in Nat
         /\ Cardinality(PlacesOf(alerts, T)) <= Len(alerts)
         /\ Cardinality(PlacesOf(alerts, T)) + 1 >= Len(alerts)
<1> DEFINE T == {a \in Alert : a.key # key}
           P == PlacesOf(alerts, T)
           n == Len(alerts)
<1>1. n \in Nat /\ IsFiniteSet(1 .. n) /\ Cardinality(1 .. n) = n
  <2>1. n \in Nat
    BY NewsAreHeard
  <2> HIDE DEF n
  <2> QED  BY <2>1, FS_Interval
<1>2. P = {i \in 1 .. n : alerts[i].key # key}
  BY NewsAreHeard DEF PlacesOf
<1>3. P \subseteq 1 .. n /\ IsFiniteSet(P) /\ Cardinality(P) \in Nat /\ Cardinality(P) <= n
  <2>1. P \in SUBSET (1 .. n)
    BY <1>2
  <2> HIDE DEF P, T
  <2> QED  BY <1>1, <2>1, FS_Subset, FS_CardinalityType
<1>4. ASSUME NEW q \in 1 .. n, alerts[q].key = key PROVE Cardinality(P) + 1 >= n
  <2>1. \A i \in (1 .. n) \ {q} : alerts[i].key # key
    <3> SUFFICES ASSUME NEW i \in (1 .. n) \ {q}, alerts[i].key = key PROVE FALSE
      OBVIOUS
    <3>1. g[i] \in News /\ g[q] \in News /\ heard[g[i]] = heard[g[q]]
      BY <1>4 DEF Follows
    <3>2. g[i] = g[q]
      BY <3>1, NewsAreHeard
    <3>3. g[i] \in Nat
      BY <3>1, NewsAreHeard
    <3>4. i \in 1 .. n /\ (i < q => g[i] < g[q]) /\ (q < i => g[q] < g[i])
      BY DEF Follows
    <3>5. ~(i < q) /\ ~(q < i)
      BY <3>2, <3>3, <3>4
    <3> QED  BY <1>1, <3>4, <3>5
  <2>2. (1 .. n) \ {q} \in SUBSET P
    BY <1>2, <2>1
  <2>3. IsFiniteSet((1 .. n) \ {q}) /\ Cardinality((1 .. n) \ {q}) = n - 1
    <3> HIDE DEF n
    <3> QED  BY <1>1, FS_RemoveElement
  <2>4. n - 1 <= Cardinality(P)
    <3> HIDE DEF P
    <3> QED  BY <1>3, <2>2, <2>3, FS_Subset
  <2> QED  BY <1>1, <1>3, <2>4
<1>5. ASSUME \A q \in 1 .. n : alerts[q].key # key PROVE Cardinality(P) + 1 >= n
  <2>1. P = 1 .. n
    BY <1>2, <1>5
  <2> QED  BY <1>1, <2>1
<1>6. Cardinality(P) + 1 >= n
  BY <1>4, <1>5
<1> QED  BY <1>3, <1>6

\* The list that Hear makes, before it is cut to its size, ...
LEMMA HeardLists ==
  ASSUME AlertsFit, NEW key \in EventKeys
  PROVE  LET P == PlacesOf(alerts, {a \in Alert : a.key # key})
             all == <<[key |-> key, read |-> FALSE]>> \o Others(key)
         IN  /\ all \in Seq(Alert) /\ Cardinality(P) \in Nat /\ Len(all) = Cardinality(P) + 1
             /\ all[1].key = key
             /\ \A i \in 2 .. Len(all) : /\ i - 1 \in 1 .. Cardinality(P)
                                         /\ all[i] = alerts[Ascending(P)[i - 1]]
<1> DEFINE T == {a \in Alert : a.key # key}
           P == PlacesOf(alerts, T)
           o == Among(alerts, T)
           new == [key |-> key, read |-> FALSE]
           all == <<new>> \o Others(key)
<1>1. new \in Alert /\ alerts \in Seq(Alert)
  BY DEF AlertsFit, Alert
<1>2. Others(key) = o
  BY DEF Others
<1>3. /\ o \in Seq(Alert \cap T) /\ Len(o) = Cardinality(P) /\ DOMAIN o = 1 .. Len(o)
      /\ \A i \in DOMAIN o : o[i] = alerts[Ascending(P)[i]]
  <2>1. ASSUME NEW t
        PROVE  /\ Among(alerts, t) \in Seq(Alert \cap t)
               /\ Len(Among(alerts, t)) = Cardinality(PlacesOf(alerts, t))
               /\ \A i \in DOMAIN Among(alerts, t) : Among(alerts, t)[i] = alerts[Ascending(PlacesOf(alerts, t))[i]]
    <3>1. Among(alerts, t) \in Seq(Alert \cap t)
      BY <1>1, AmongHolds
    <3>2. Len(Among(alerts, t)) = Cardinality(PlacesOf(alerts, t))
      BY <1>1, AmongHolds
    <3>3. \A i \in DOMAIN Among(alerts, t) : Among(alerts, t)[i] = alerts[Ascending(PlacesOf(alerts, t))[i]]
      BY DEF Among
    <3> QED  BY <3>1, <3>2, <3>3
  <2>2. /\ o \in Seq(Alert \cap T) /\ Len(o) = Cardinality(P)
        /\ \A i \in DOMAIN o : o[i] = alerts[Ascending(P)[i]]
    BY <2>1
  <2> HIDE DEF o, P, T
  <2> QED  BY <2>2, LenProperties
<1>4. o \in Seq(Alert) /\ Len(o) \in Nat
  <2> HIDE DEF o, T
  <2>1. Alert \cap T \subseteq Alert
    OBVIOUS
  <2>2. \A i \in 1 .. Len(o) : o[i] \in Alert
    BY <1>3, LenProperties
  <2> QED  BY <1>3, <2>2, LenProperties, SeqDef
<1>5. /\ all \in Seq(Alert) /\ Len(all) = Len(o) + 1 /\ all[1] = new
      /\ \A i \in 2 .. Len(all) : i - 1 \in 1 .. Len(o) /\ all[i] = o[i - 1]
  <2> HIDE DEF o, new
  <2>1. <<new>> \in Seq(Alert) /\ Len(<<new>>) = 1 /\ <<new>>[1] = new
    BY <1>1
  <2>2. all = <<new>> \o o
    BY <1>2
  <2> HIDE DEF all
  <2>3. /\ all \in Seq(Alert) /\ Len(all) = Len(o) + 1 /\ all[1] = new
        /\ \A i \in 2 .. 1 + Len(o) : all[i] = o[i - 1]
    BY <1>4, <2>1, <2>2, ConcatProperties
  <2>4. \A i \in 2 .. Len(all) : i - 1 \in 1 .. Len(o)
    BY <1>4, <2>3
  <2>5. 1 + Len(o) = Len(o) + 1
    BY <1>4
  <2>6. 2 .. Len(all) = 2 .. 1 + Len(o)
    BY <1>4, <2>3
  <2> QED  BY <2>3, <2>4, <2>5, <2>6
<1>6. /\ all \in Seq(Alert) /\ Cardinality(P) \in Nat /\ Len(all) = Cardinality(P) + 1
      /\ all[1].key = key
      /\ \A i \in 2 .. Len(all) : i - 1 \in 1 .. Cardinality(P) /\ all[i] = alerts[Ascending(P)[i - 1]]
  <2>1. new.key = key
    OBVIOUS
  <2> HIDE DEF all, P, o, new
  <2> QED  BY <1>3, <1>4, <1>5, <2>1
<1> QED  BY <1>6

\* ... and where the news are when one more is heard.
LEMMA NewsMove ==
  ASSUME AlertsFit, NEW key \in EventKeys, Hear(key)
  PROVE  /\ heard' \in Seq(EventKeys) /\ 1 \in News' /\ heard'[1] = key
         /\ \A k \in 1 .. Len(heard) : heard'[k + 1] = heard[k]
         /\ \A k \in News : heard[k] # key => k + 1 \in News'
         /\ \A k \in News' : k # 1 => k - 1 \in News /\ heard[k - 1] # key
<1>1. Len(heard) \in Nat /\ heard \in Seq(EventKeys) /\ heard' = <<key>> \o heard
      /\ \A i \in 1 .. Len(heard) : heard[i] \in EventKeys
  BY NewsAreHeard DEF Hear, AlertsFit
<1>2. /\ heard' \in Seq(EventKeys) /\ Len(heard') = Len(heard) + 1 /\ heard'[1] = key
      /\ \A k \in 1 .. Len(heard) : heard'[k + 1] = heard[k]
  <2>1. <<key>> \in Seq(EventKeys) /\ Len(<<key>>) = 1 /\ <<key>>[1] = key
    OBVIOUS
  <2>2. \A k \in 1 .. Len(heard) : k + 1 \in (Len(<<key>>) + 1) .. (Len(<<key>>) + Len(heard))
    BY <1>1, <2>1
  <2> QED  BY <1>1, <2>1, <2>2, ConcatProperties
<1>3. DOMAIN heard' = 1 .. Len(heard) + 1 /\ DOMAIN heard = 1 .. Len(heard)
  BY <1>1, <1>2, LenProperties
<1>4. News' = {k \in DOMAIN heard' : \A j \in 1 .. k - 1 : heard'[j] # heard'[k]}
  BY DEF News
<1>5. 1 \in News'
  BY <1>1, <1>3, <1>4
<1>6. ASSUME NEW k \in News, heard[k] # key PROVE k + 1 \in News'
  <2>1. k \in 1 .. Len(heard) /\ \A j \in 1 .. k - 1 : heard[j] # heard[k]
    BY <1>3 DEF News
  <2>2. ASSUME NEW j \in 1 .. k PROVE heard'[j] # heard'[k + 1]
    <3>1. CASE j = 1
      BY <1>2, <1>6, <2>1, <3>1
    <3>2. CASE j # 1
      <4>1. j - 1 \in 1 .. k - 1 /\ j - 1 \in 1 .. Len(heard)
        BY <1>1, <2>1, <3>2
      <4>2. heard'[(j - 1) + 1] = heard[j - 1] /\ (j - 1) + 1 = j
        BY <1>2, <4>1
      <4> QED  BY <1>2, <2>1, <4>1, <4>2
    <3> QED  BY <3>1, <3>2
  <2> QED  BY <1>1, <1>3, <1>4, <2>1, <2>2
<1>7. ASSUME NEW k \in News', k # 1 PROVE k - 1 \in News /\ heard[k - 1] # key
  <2>1. k \in 2 .. Len(heard) + 1 /\ k - 1 \in 1 .. Len(heard) /\ (k - 1) + 1 = k
        /\ \A j \in 1 .. k - 1 : heard'[j] # heard'[k]
    BY <1>1, <1>3, <1>4, <1>7
  <2>2. heard'[k] = heard[k - 1]
    BY <1>2, <2>1
  <2>3. ASSUME NEW j \in 1 .. (k - 1) - 1 PROVE heard[j] # heard[k - 1]
    <3>1. j \in 1 .. Len(heard) /\ j + 1 \in 1 .. k - 1
      BY <1>1, <2>1
    <3> QED  BY <1>2, <2>1, <2>2, <3>1
  <2>4. heard[k - 1] # key
    BY <1>2, <2>1, <2>2
  <2> QED  BY <1>3, <2>1, <2>3, <2>4 DEF News
<1> QED  BY <1>2, <1>5, <1>6, <1>7

\* The new one is the newest, and those that stay follow the news as they did.
LEMMA HearKept == ASSUME AlertsMore, NEW key \in EventKeys, Hear(key) PROVE AlertsMore'
<1> DEFINE T == {a \in Alert : a.key # key}
           P == PlacesOf(alerts, T)
           n == Len(alerts)
           c == Cardinality(P)
           p == Ascending(P)
           all == <<[key |-> key, read |-> FALSE]>> \o Others(key)
           l == IF Len(all) > MaxAlerts THEN MaxAlerts ELSE Len(all)
<1>1. AlertsFit
  BY DEF AlertsMore
<1>2. PICK g : Follows(g)
  BY DEF AlertsMore
<1>3. /\ n \in Nat /\ n <= MaxAlerts /\ MaxAlerts \in Nat \ {0} /\ DOMAIN alerts = 1 .. n
      /\ \A i \in 1 .. n : alerts[i] \in Alert
  BY <1>1, NewsAreHeard, InboxAssumption DEF AlertsFit
<1>4. /\ all \in Seq(Alert) /\ c \in Nat /\ Len(all) = c + 1 /\ all[1].key = key
      /\ \A i \in 2 .. c + 1 : i - 1 \in 1 .. c /\ all[i] = alerts[p[i - 1]]
  BY <1>1, HeardLists
<1>5. P \in SUBSET (1 .. n) /\ IsFiniteSet(P) /\ c <= n /\ c + 1 >= n
  BY <1>1, <1>2, OneIsReplaced
<1>6. \A i \in P : alerts[i].key # key /\ i \in 1 .. n
  BY <1>3, <1>5 DEF PlacesOf
<1>7. \A i \in 1 .. n : alerts[i].key # key => i \in P
  BY <1>3 DEF PlacesOf
<1>8. /\ \A i \in 1 .. c : p[i] \in P
      /\ \A i, j \in 1 .. c : i < j => p[i] < p[j]
      /\ \A q \in P : \E i \in 1 .. c : p[i] = q
  <2>1. P \in SUBSET Nat
    BY <1>5
  <2> HIDE DEF P
  <2> QED  BY <1>5, <2>1, AscendingHolds
<1>9. alerts' = SubSeq(all, 1, l)
  BY DEF Hear, Newest
<1>10. /\ l \in 1 .. c + 1 /\ l <= MaxAlerts /\ (l = c + 1 \/ l = MaxAlerts)
       /\ (n = MaxAlerts => l = MaxAlerts)
  <2> HIDE DEF all, c, n
  <2> QED  BY <1>3, <1>4, <1>5
<1> HIDE DEF all, c, n, l, p, P
<1>11. /\ alerts' \in Seq(Alert) /\ Len(alerts') = l
       /\ \A i \in 1 .. l : alerts'[i] = all[i]
  <2>1. /\ SubSeq(all, 1, l) \in Seq(Alert) /\ Len(SubSeq(all, 1, l)) = l
        /\ \A i \in 1 .. l : SubSeq(all, 1, l)[i] = all[1 + i - 1] /\ 1 + i - 1 = i
    BY <1>4, <1>10, SubSeqProperties
  <2> QED  BY <1>9, <2>1
<1>12. /\ heard' \in Seq(EventKeys) /\ 1 \in News' /\ heard'[1] = key
       /\ \A k \in 1 .. Len(heard) : heard'[k + 1] = heard[k]
       /\ \A k \in News : heard[k] # key => k + 1 \in News'
       /\ \A k \in News' : k # 1 => k - 1 \in News /\ heard[k - 1] # key
  BY <1>1, NewsMove
<1>13. /\ g \in [1 .. n -> News] /\ News \in SUBSET (Nat \ {0})
       /\ \A i, j \in 1 .. n : i < j => g[i] < g[j]
       /\ \A i \in 1 .. n : alerts[i].key = heard[g[i]] /\ g[i] \in 1 .. Len(heard)
  BY <1>1, <1>2, NewsAreHeard DEF Follows, n
<1> DEFINE h == [i \in 1 .. l |-> IF i = 1 THEN 1 ELSE g[p[i - 1]] + 1]
<1>14. ASSUME NEW i \in 2 .. l
       PROVE  /\ i - 1 \in 1 .. c /\ p[i - 1] \in 1 .. n /\ h[i] = g[p[i - 1]] + 1
              /\ g[p[i - 1]] \in News /\ g[p[i - 1]] \in Nat \ {0}
              /\ alerts'[i] = alerts[p[i - 1]] /\ alerts[p[i - 1]].key # key
              /\ heard[g[p[i - 1]]] = alerts[p[i - 1]].key
              /\ heard'[h[i]] = alerts[p[i - 1]].key
  <2>1. i \in 2 .. c + 1 /\ i \in 1 .. l /\ i # 1
    BY <1>4, <1>10
  <2>2. i - 1 \in 1 .. c /\ p[i - 1] \in P /\ p[i - 1] \in 1 .. n
    BY <1>4, <1>6, <1>8, <2>1
  <2>3. g[p[i - 1]] \in News /\ g[p[i - 1]] \in Nat \ {0} /\ g[p[i - 1]] \in 1 .. Len(heard)
    BY <1>13, <2>2
  <2>4. h[i] = g[p[i - 1]] + 1
    BY <2>1
  <2>5. heard[g[p[i - 1]]] = alerts[p[i - 1]].key /\ alerts[p[i - 1]].key # key
    BY <1>6, <1>13, <2>2
  <2> QED  BY <1>4, <1>11, <1>12, <2>1, <2>2, <2>3, <2>4, <2>5
<1>15. h[1] = 1
  BY <1>10
<1>16. h = [i \in 1 .. l |-> h[i]]
  OBVIOUS
<1> HIDE DEF h
<1>17. h \in [1 .. l -> News']
  <2>1. ASSUME NEW i \in 1 .. l PROVE h[i] \in News'
    <3>1. CASE i = 1
      BY <1>12, <1>15, <3>1
    <3>2. CASE i # 1
      <4>1. i \in 2 .. l
        BY <1>10, <3>2
      <4> QED  BY <1>12, <1>14, <4>1
    <3> QED  BY <3>1, <3>2
  <2> QED  BY <1>16, <2>1
<1>18. ASSUME NEW i \in 1 .. l, NEW j \in 1 .. l, i < j PROVE h[i] < h[j]
  <2>1. j \in 2 .. l
    BY <1>10, <1>18
  <2>2. CASE i = 1
    BY <1>14, <1>15, <2>1, <2>2
  <2>3. CASE i # 1
    <3>1. i \in 2 .. l
      BY <1>10, <2>3
    <3>2. i - 1 < j - 1 /\ i - 1 \in 1 .. c /\ j - 1 \in 1 .. c
      <4>1. i - 1 \in 1 .. c /\ j - 1 \in 1 .. c
        BY <1>14, <2>1, <3>1
      <4>2. i \in Nat /\ j \in Nat
        BY <1>10
      <4> QED  BY <1>18, <4>1, <4>2
    <3>3. p[i - 1] < p[j - 1] /\ p[i - 1] \in 1 .. n /\ p[j - 1] \in 1 .. n
      BY <1>8, <1>14, <2>1, <3>1, <3>2
    <3>4. g[p[i - 1]] < g[p[j - 1]]
      BY <1>13, <3>3
    <3> QED  BY <1>14, <2>1, <3>1, <3>4
  <2> QED  BY <2>2, <2>3
<1>19. ASSUME NEW i \in 1 .. l PROVE alerts'[i].key = heard'[h[i]]
  <2>1. CASE i = 1
    BY <1>4, <1>11, <1>12, <1>15, <2>1
  <2>2. CASE i # 1
    <3>1. i \in 2 .. l
      BY <1>10, <2>2
    <3> QED  BY <1>14, <3>1
  <2> QED  BY <2>1, <2>2
<1>20. ASSUME NEW k \in News', ~ \E i \in 1 .. l : h[i] = k
       PROVE  l = MaxAlerts /\ \A i \in 1 .. l : h[i] < k
  <2>1. k # 1 /\ k - 1 \in News /\ heard[k - 1] # key /\ k - 1 \in Nat \ {0} /\ k \in Nat
    <3>1. k # 1
      BY <1>10, <1>15, <1>20
    <3>2. News' \in SUBSET Nat
      BY <1>12, LenProperties DEF News
    <3>3. k - 1 \in News /\ heard[k - 1] # key
      BY <1>12, <3>1
    <3> QED  BY <1>13, <3>1, <3>2, <3>3
  <2>2. CASE \E q \in 1 .. n : g[q] = k - 1
    <3>1. PICK q \in 1 .. n : g[q] = k - 1
      BY <2>2
    <3>2. q \in P
      BY <1>7, <1>13, <2>1, <3>1
    <3>3. PICK i \in 1 .. c : p[i] = q
      BY <1>8, <3>2
    <3>4. ~(i + 1 <= l)
      <4>1. SUFFICES ASSUME i + 1 \in 2 .. l PROVE FALSE
        BY <1>4, <1>10
      <4>2. h[i + 1] = g[p[i]] + 1 /\ i + 1 \in 1 .. l
        <5>1. (i + 1) - 1 = i
          OBVIOUS
        <5> QED  BY <1>14, <4>1, <5>1
      <4>3. h[i + 1] = k
        BY <2>1, <3>1, <3>3, <4>2
      <4> QED  BY <1>20, <4>2, <4>3
    <3>5. l = MaxAlerts /\ l <= i
      BY <1>3, <1>4, <1>10, <3>4
    <3>6. ASSUME NEW j \in 1 .. l PROVE h[j] < k
      <4>1. CASE j = 1
        BY <1>15, <2>1, <4>1
      <4>2. CASE j # 1
        <5>1. j \in 2 .. l
          BY <1>10, <4>2
        <5>2. j - 1 < i /\ j - 1 \in 1 .. c
          BY <1>10, <1>14, <3>5, <5>1
        <5>3. p[j - 1] < q /\ p[j - 1] \in 1 .. n
          BY <1>8, <1>14, <3>3, <5>1, <5>2
        <5>4. g[p[j - 1]] < k - 1
          BY <1>13, <3>1, <5>3
        <5> QED  BY <1>14, <2>1, <5>1, <5>4
      <4> QED  BY <4>1, <4>2
    <3> QED  BY <3>5, <3>6
  <2>3. CASE ~ \E q \in 1 .. n : g[q] = k - 1
    <3>1. n = MaxAlerts /\ \A i \in 1 .. n : g[i] < k - 1
      BY <1>2, <2>1, <2>3 DEF Follows, n
    <3>2. ASSUME NEW j \in 1 .. l PROVE h[j] < k
      <4>1. CASE j = 1
        BY <1>15, <2>1, <4>1
      <4>2. CASE j # 1
        <5>1. j \in 2 .. l
          BY <1>10, <4>2
        <5> QED  BY <1>14, <2>1, <3>1, <5>1
      <4> QED  BY <4>1, <4>2
    <3> QED  BY <1>10, <3>1, <3>2
  <2> QED  BY <2>2, <2>3
<1>21. PICK f : f = h
  OBVIOUS
<1>22. Follows(f)'
  BY <1>11, <1>17, <1>18, <1>19, <1>20, <1>21 DEF Follows
<1> QED  BY <1>10, <1>11, <1>12, <1>22 DEF AlertsMore, AlertsFit

LEMMA AlertsStart == InboxInit => AlertsMore
<1> SUFFICES ASSUME InboxInit PROVE AlertsMore
  OBVIOUS
<1>1. alerts = <<>> /\ heard = <<>>
  BY DEF InboxInit
<1>2. News = {}
  BY <1>1 DEF News
<1> DEFINE g == [i \in 1 .. 0 |-> 0]
<1>3. Follows(g)
  BY <1>1, <1>2 DEF Follows
<1>4. AlertsFit
  BY <1>1, InboxAssumption DEF AlertsFit
<1> QED  BY <1>3, <1>4 DEF AlertsMore

\* Reading takes none away.
LEMMA SameNews ==
  ASSUME AlertsMore, heard' = heard, alerts' \in Seq(Alert), Len(alerts') = Len(alerts),
         \A k \in 1 .. Len(alerts) : alerts'[k].key = alerts[k].key
  PROVE  AlertsMore'
<1>1. AlertsFit'
  BY DEF AlertsMore, AlertsFit
<1>2. PICK g : Follows(g)
  BY DEF AlertsMore
<1>3. News' = News
  BY DEF News
<1>4. Follows(g)'
  BY <1>2, <1>3 DEF Follows
<1> QED  BY <1>1, <1>4 DEF AlertsMore

\* What moves the inbox: itself, and a dialog that has made a chat, which is put on screen.
ChatMade == /\ RefreshList(view) /\ picked' \in Chats
            /\ UNCHANGED <<rows, changes, told, listed, view, commands, live, due, inboxFaults, alertVars>>
InboxMoves == ListNext \/ AlertNext \/ ChatMade

LEMMA AlertStep == AlertsMore /\ [InboxMoves]_inboxVars => AlertsMore'
<1> SUFFICES ASSUME AlertsMore, [InboxMoves]_inboxVars PROVE AlertsMore'
  OBVIOUS
<1>0. alerts \in Seq(Alert) /\ Len(alerts) \in Nat /\ DOMAIN alerts = 1 .. Len(alerts)
      /\ \A k \in 1 .. Len(alerts) : alerts[k] \in Alert
  BY NewsAreHeard DEF AlertsMore, AlertsFit
<1>1. CASE UNCHANGED alertVars
  BY <1>0, <1>1, SameNews DEF alertVars
<1>2. ASSUME NEW key \in EventKeys, Hear(key) PROVE AlertsMore'
  BY <1>2, HearKept
<1>3. ASSUME NEW key \in EventKeys, MarkRead(key) PROVE AlertsMore'
  <2>1. ASSUME NEW k \in 1 .. Len(alerts)
        PROVE  alerts'[k] \in Alert /\ alerts'[k].key = alerts[k].key
    <3>1. alerts'[k] = [alerts[k] EXCEPT !.read = alerts[k].read \/ alerts[k].key = key]
      BY <1>0, <1>3 DEF MarkRead
    <3>2. (alerts[k].read \/ alerts[k].key = key) \in BOOLEAN
      OBVIOUS
    <3> QED  BY <1>0, <3>1, <3>2 DEF Alert
  <2>2. alerts' \in Seq(Alert) /\ Len(alerts') = Len(alerts)
    <3>1. alerts' = [k \in 1 .. Len(alerts) |-> alerts'[k]]
      BY <1>0, <1>3, Zenon DEF MarkRead
    <3>2. alerts' \in [1 .. Len(alerts) -> Alert]
      BY <2>1, <3>1
    <3> QED  BY <1>0, <3>2, LenProperties, SeqDef
  <2> QED  BY <1>3, <2>1, <2>2, SameNews DEF MarkRead
<1>4. CASE MarkAllRead
  <2>1. ASSUME NEW k \in 1 .. Len(alerts)
        PROVE  alerts'[k] \in Alert /\ alerts'[k].key = alerts[k].key
    <3>1. alerts'[k] = [alerts[k] EXCEPT !.read = TRUE]
      BY <1>0, <1>4 DEF MarkAllRead
    <3> QED  BY <1>0, <3>1 DEF Alert
  <2>2. alerts' \in Seq(Alert) /\ Len(alerts') = Len(alerts)
    BY <1>0, <1>4, <2>1, LenProperties, SeqDef DEF MarkAllRead
  <2> QED  BY <1>4, <2>1, <2>2, SameNews DEF MarkAllRead
<1>5. CASE ClearAlerts
  <2>1. alerts' = <<>> /\ heard' = <<>> /\ News' = {}
    BY <1>5 DEF ClearAlerts, News
  <2>2. PICK g : g = [i \in 1 .. 0 |-> 0]
    OBVIOUS
  <2>3. Follows(g)'
    BY <2>1, <2>2 DEF Follows
  <2>4. AlertsFit'
    BY <2>1, InboxAssumption DEF AlertsFit
  <2> QED  BY <2>3, <2>4 DEF AlertsMore
<1> QED  BY <1>1, <1>2, <1>3, <1>4, <1>5 DEF InboxMoves, ChatMade, ListNext, AlertNext, inboxVars

-----------------------------------------------------------------------------
(* The list of chats: its types. *)

ListRequest == [of : {"inbox", "archived"}, kind : {"load", "refresh"}, current : BOOLEAN,
                answered : BOOLEAN, rows : Rows]
ListCommand == [op : {"clear", "mark", "pin", "archive", "unarchive"}, chat : Chats, view : Views]

\* Every change moves one chat to the top at most.
RanksFit == \A c \in Chats : rows[c].rank <= Cardinality(Chats) + changes
RowsFit == /\ rows \in [Chats -> Row] /\ changes \in 0 .. MaxChanges /\ RanksFit
ReadsFit == reads \in Seq(ListRequest) /\ Len(reads) <= MaxListReads
PlacesFit == /\ listed \in Rows /\ view \in Views /\ picked \in Chats \cup {NoChat}
             /\ commands \subseteq ListCommand
SignsFit == /\ told \in BOOLEAN /\ live \in BOOLEAN /\ due \in BOOLEAN
            /\ inboxFaults \in 0 .. MaxInboxFaults
ListMore == RowsFit /\ ReadsFit /\ PlacesFit /\ SignsFit

\* Of numbers that have a bound one is the highest.
LEMMA HighestIs ==
  ASSUME NEW S, S # {}, NEW f, NEW b \in Nat, \A c \in S : f[c] \in 0 .. b
  PROVE  \E c \in S : \A d \in S : f[d] <= f[c]
<1> DEFINE T == {n \in 0 .. b : \A d \in S : f[d] <= n}
<1>1. T \in SUBSET Nat /\ IsFiniteSet(T)
  <2>1. IsFiniteSet(0 .. b)
    BY FS_Interval
  <2> QED  BY <2>1, FS_Subset
<1>2. b \in T
  OBVIOUS
<1>3. PICK n \in T : \A m \in T : n <= m
  <2> HIDE DEF T
  <2> QED  BY <1>1, <1>2, LeastIs
<1>4. n \in 0 .. b /\ \A d \in S : f[d] <= n
  OBVIOUS
<1>5. ASSUME \A c \in S : f[c] # n PROVE FALSE
  <2>1. PICK c \in S : TRUE
    OBVIOUS
  <2>2. n # 0
    BY <1>4, <1>5, <2>1
  <2>3. n - 1 \in 0 .. b
    BY <1>4, <2>2
  <2>4. \A d \in S : f[d] <= n - 1
    BY <1>4, <1>5
  <2>5. n - 1 \in T
    BY <2>3, <2>4
  <2> QED  BY <1>3, <1>4, <2>5
<1>6. PICK c \in S : f[c] = n
  BY <1>5
<1> QED  BY <1>4, <1>6

LEMMA ChatsAreCounted ==
  /\ Cardinality(Chats) \in Nat /\ MaxChanges \in Nat
  /\ MaxListReads \in Nat /\ MaxListReads > 0 /\ MaxInboxFaults \in Nat
  /\ Cardinality(Chats) + MaxChanges \in Nat
<1>1. Cardinality(Chats) \in Nat
  BY InboxAssumption, FS_CardinalityType
<1> QED  BY <1>1, InboxAssumption

\* A list has a row for some chats.
LEMMA ListsFit ==
  ASSUME NEW of \in Rows
  PROVE  /\ DOMAIN of \subseteq Chats
         /\ \A c \in DOMAIN of : of[c] \in Row
  BY DEF Rows

\* The first of a list is in it.
LEMMA TopIsThere ==
  ASSUME NEW of \in Rows, NEW S \in SUBSET DOMAIN of, S # {}
  PROVE  Top(S, of) \in S
<1> DEFINE f == [c \in S |-> of[c].rank]
<1>1. \A c \in S : f[c] \in 0 .. Cardinality(Chats) + MaxChanges
  BY ListsFit, ChatsAreCounted DEF Row
<1>2. PICK c \in S : \A d \in S : f[d] <= f[c]
  <2> HIDE DEF f
  <2> QED  BY <1>1, ChatsAreCounted, HighestIs
<1>3. \A d \in S : of[c].rank >= of[d].rank
  <2>1. \A d \in S : f[d] = of[d].rank /\ f[d] \in Nat
    BY <1>1
  <2> QED  BY <1>2, <2>1
<1>4. \E e \in S : \A d \in S : of[e].rank >= of[d].rank
  BY <1>3
<1> QED  BY <1>4 DEF Top

\* What is on screen is a chat, or nothing is.
LEMMA ScreenFits == ListMore => OnScreen \in Chats \cup {NoChat}
<1> SUFFICES ASSUME ListMore PROVE OnScreen \in Chats \cup {NoChat}
  OBVIOUS
<1>1. listed \in Rows /\ DOMAIN listed \subseteq Chats
  BY ListsFit DEF ListMore, PlacesFit
<1> DEFINE F == Filtered(listed, view)
<1>2. F \in SUBSET DOMAIN listed
  BY DEF Filtered
<1>3. F # {} => Top(F, listed) \in F
  <2> HIDE DEF F
  <2> QED  BY <1>1, <1>2, TopIsThere
<1>4. DOMAIN listed # {} => Top(DOMAIN listed, listed) \in DOMAIN listed
  BY <1>1, TopIsThere
<1>5. CASE picked \in F
  BY <1>1, <1>2, <1>5 DEF OnScreen, Shown
<1>6. CASE picked \notin F /\ F # {}
  <2>1. OnScreen = Top(F, listed)
    BY <1>6 DEF OnScreen, Shown
  <2> HIDE DEF F
  <2> QED  BY <1>1, <1>2, <1>3, <1>6, <2>1
<1>7. CASE picked \notin F /\ F = {} /\ DOMAIN listed # {}
  <2>1. OnScreen = Top(DOMAIN listed, listed)
    BY <1>7 DEF OnScreen, Shown
  <2> HIDE DEF F
  <2> QED  BY <1>1, <1>4, <1>7, <2>1
<1>8. CASE picked \notin F /\ F = {} /\ DOMAIN listed = {}
  <2>1. OnScreen = NoChat
    BY <1>8 DEF OnScreen, Shown
  <2> QED  BY <2>1
<1> QED  BY <1>5, <1>6, <1>7, <1>8

LEMMA ListingFits ==
  ASSUME RowsFit, NEW lifecycle PROVE Listing(lifecycle) \in Rows
<1> DEFINE S == {d \in Chats : rows[d].archived = (lifecycle = "archived")}
<1>1. [c \in S |-> rows[c]] \in [S -> Row] /\ S \in SUBSET Chats
  BY DEF RowsFit
<1> QED  BY <1>1 DEF Listing, Rows

LEMMA RequestsList ==
  ASSUME NEW v \in Views, NEW kind \in {"load", "refresh"}
  PROVE  ListRead(v, kind) \in ListRequest
<1>1. [c \in {} |-> rows[c]] \in [{} -> Row]
  OBVIOUS
<1>2. [c \in {} |-> rows[c]] \in Rows
  BY <1>1 DEF Rows
<1> QED  BY <1>2 DEF ListRead, ListRequest, Lifecycle

\* A further request.
LEMMA ReadsGrow ==
  ASSUME ReadsFit, NEW v \in Views, RefreshList(v) PROVE ReadsFit'
<1>1. ListRead(v, "refresh") \in ListRequest
  BY RequestsList
<1>2. /\ Append(reads, ListRead(v, "refresh")) \in Seq(ListRequest)
      /\ Len(Append(reads, ListRead(v, "refresh"))) = Len(reads) + 1
  BY <1>1, AppendProperties DEF ReadsFit
<1>3. Len(reads) \in Nat /\ MaxListReads \in Nat
  BY LenProperties, ChatsAreCounted DEF ReadsFit
<1> QED  BY <1>2, <1>3 DEF ReadsFit, RefreshList, ListRequest, Rows

\* One that is answered or fails.
LEMMA ReadsShrink ==
  ASSUME ReadsFit, NEW k \in DOMAIN reads, reads' = RemoveAt(reads, k) PROVE ReadsFit'
<1>1. reads' \in Seq(ListRequest) /\ Len(reads') = Len(reads) - 1
  BY RemoveOne DEF ReadsFit
<1>2. Len(reads) \in Nat /\ MaxListReads \in Nat
  BY LenProperties, ChatsAreCounted DEF ReadsFit
<1> QED  BY <1>1, <1>2 DEF ReadsFit, ListRequest, Rows

LEMMA ReadsRest == ReadsFit /\ reads' = reads => ReadsFit'
  BY DEF ReadsFit, ListRequest, Rows

LEMMA RowsRest == RowsFit /\ rows' = rows /\ changes' = changes => RowsFit'
  BY DEF RowsFit, RanksFit

LEMMA PlacesRest ==
  PlacesFit /\ UNCHANGED <<listed, view, picked, commands>> => PlacesFit'
  BY DEF PlacesFit, Rows, ListCommand

\* A command, or somebody else, changes one chat.
LEMMA RowsChange ==
  ASSUME RowsFit, NEW c \in Chats, NEW op \in {"clear", "mark", "pin", "archive", "unarchive"},
         Change, rows' = [rows EXCEPT ![c] = Effect(rows[c], op)]
  PROVE  RowsFit'
<1> DEFINE R == {rows[d].rank : d \in Chats}
<1>1. changes \in Nat /\ changes < MaxChanges /\ changes' = changes + 1
  BY ChatsAreCounted DEF Change, RowsFit
<1>2. \A d \in Chats : /\ rows[d] \in Row
                       /\ rows[d].rank \in 1 .. Cardinality(Chats) + changes
  BY <1>1, ChatsAreCounted DEF RowsFit, RanksFit, Row
<1>3. MaxRank \in 1 .. Cardinality(Chats) + changes
  <2> DEFINE f == [d \in Chats |-> rows[d].rank]
  <2>1. \A d \in Chats : f[d] \in 0 .. Cardinality(Chats) + changes
    BY <1>1, <1>2, ChatsAreCounted
  <2>2. Cardinality(Chats) + changes \in Nat
    BY <1>1, ChatsAreCounted
  <2>3. PICK d \in Chats : \A e \in Chats : f[e] <= f[d]
    <3> HIDE DEF f
    <3> QED  BY <2>1, <2>2, HighestIs
  <2>4. rows[d].rank \in R /\ \A e \in Chats : rows[e].rank <= rows[d].rank
    BY <2>3
  <2>5. MaxRank \in R
    BY <2>4 DEF MaxRank
  <2> QED  BY <1>2, <2>5
<1>4. Effect(rows[c], op) \in Row /\ Effect(rows[c], op).rank <= Cardinality(Chats) + changes'
  <2>1. Cardinality(Chats) \in Nat /\ MaxChanges \in Nat
    BY ChatsAreCounted
  <2>2. MaxRank + 1 \in 1 .. Cardinality(Chats) + MaxChanges /\ MaxRank + 1 <= Cardinality(Chats) + changes'
    BY <1>1, <1>3, <2>1
  <2>3. rows[c] \in Row /\ rows[c].rank <= Cardinality(Chats) + changes'
    BY <1>1, <1>2, <2>1
  <2>4. CASE op = "pin"
    <3>1. Effect(rows[c], op) = [rows[c] EXCEPT !.rank = MaxRank + 1]
      BY <2>4 DEF Effect
    <3> QED  BY <2>2, <2>3, <3>1 DEF Row
  <2>5. CASE op # "pin"
    <3>1. \E a, m \in BOOLEAN : Effect(rows[c], op) = [rows[c] EXCEPT !.archived = a]
                                \/ Effect(rows[c], op) = [rows[c] EXCEPT !.marked = m]
      BY <2>5 DEF Effect
    <3> QED  BY <2>3, <3>1 DEF Row
  <2> QED  BY <2>4, <2>5
<1>5. rows' \in [Chats -> Row]
  BY <1>4 DEF RowsFit
<1>6. RanksFit'
  <2> SUFFICES ASSUME NEW d \in Chats PROVE rows'[d].rank <= Cardinality(Chats) + changes'
    BY DEF RanksFit
  <2>1. CASE d = c
    BY <1>4, <2>1 DEF RowsFit
  <2>2. CASE d # c
    <3>1. rows'[d] = rows[d]
      BY <2>2 DEF RowsFit
    <3> QED  BY <1>1, <1>2, <3>1, ChatsAreCounted
  <2> QED  BY <2>1, <2>2
<1>7. changes' \in 0 .. MaxChanges
  BY <1>1, ChatsAreCounted
<1> QED  BY <1>5, <1>6, <1>7 DEF RowsFit

LEMMA ListStart == InboxInit => ListMore
<1> SUFFICES ASSUME InboxInit PROVE ListMore
  OBVIOUS
<1>1. RowsFit
  <2>1. rows \in [Chats -> [rank : 1 .. Cardinality(Chats), archived : {FALSE}, marked : {FALSE}]]
        /\ changes = 0
    BY DEF InboxInit
  <2>2. ASSUME NEW c \in Chats
        PROVE  rows[c] \in Row /\ rows[c].rank <= Cardinality(Chats) + changes
    <3>1. rows[c] \in [rank : 1 .. Cardinality(Chats), archived : {FALSE}, marked : {FALSE}]
      BY <2>1
    <3>2. PICK k \in 1 .. Cardinality(Chats) :
                 rows[c] = [rank |-> k, archived |-> FALSE, marked |-> FALSE]
      BY <3>1
    <3>3. k \in 1 .. Cardinality(Chats) + MaxChanges /\ k <= Cardinality(Chats) + changes
      BY <2>1, ChatsAreCounted
    <3> QED  BY <3>2, <3>3 DEF Row
  <2> QED  BY <2>1, <2>2, ChatsAreCounted DEF RowsFit, RanksFit
<1>2. ReadsFit
  <2>1. reads = <<ListRead("all", "load")>> /\ ListRead("all", "load") \in ListRequest
    BY RequestsList DEF InboxInit, Views
  <2> QED  BY <2>1, ChatsAreCounted DEF ReadsFit
<1>3. PlacesFit
  <2>1. [c \in {} |-> rows[c]] \in [{} -> Row]
    OBVIOUS
  <2>2. listed \in Rows
    BY <2>1 DEF InboxInit, Rows
  <2> QED  BY <2>2 DEF InboxInit, PlacesFit, Views
<1>4. SignsFit
  <2>1. told = FALSE /\ live = FALSE /\ due = FALSE /\ inboxFaults = 0
    BY DEF InboxInit
  <2>2. MaxInboxFaults \in Nat
    BY ChatsAreCounted
  <2>3. inboxFaults \in 0 .. MaxInboxFaults
    BY <2>1, <2>2
  <2> QED  BY <2>1, <2>3, Zenon DEF SignsFit
<1> QED  BY <1>1, <1>2, <1>3, <1>4 DEF ListMore

\* Answers and failures of the list's requests.
LEMMA ReadsKept ==
  ASSUME ListMore, NEW k \in DOMAIN reads, ReadList(k) \/ ListAnswer(k) \/ ListFails(k)
  PROVE  ListMore'
<1>0. /\ RowsFit /\ ReadsFit /\ PlacesFit /\ SignsFit
      /\ reads[k] \in ListRequest /\ reads[k].rows \in Rows
      /\ inboxFaults \in Nat /\ MaxInboxFaults \in Nat
  <2>1. RowsFit /\ ReadsFit /\ PlacesFit /\ SignsFit
    BY DEF ListMore
  <2>2. reads[k] \in ListRequest
    <3>1. reads \in Seq(ListRequest)
      BY <2>1 DEF ReadsFit
    <3> QED  BY <3>1, LenProperties
  <2>3. reads[k].rows \in Rows
    BY <2>2 DEF ListRequest
  <2>4. MaxInboxFaults \in Nat
    BY ChatsAreCounted
  <2>5. inboxFaults \in Nat
    BY <2>1, <2>4 DEF SignsFit
  <2> QED  BY <2>1, <2>2, <2>3, <2>4, <2>5
<1>1. RowsFit'
  BY <1>0, RowsRest DEF ReadList, ListAnswer, ListFails
<1>2. SignsFit'
  BY <1>0 DEF ReadList, ListAnswer, ListFails, SignsFit, InboxFault
<1>3. CASE ReadList(k)
  <2>1. Listing(reads[k].of) \in Rows
    BY <1>0, ListingFits
  <2>2. [reads[k] EXCEPT !.answered = TRUE, !.rows = Listing(reads[k].of)] \in ListRequest
    BY <1>0, <2>1 DEF ListRequest
  <2>3. /\ reads' \in Seq(ListRequest) /\ Len(reads') = Len(reads)
    <3>1. reads' = [reads EXCEPT ![k] = [reads[k] EXCEPT !.answered = TRUE,
                                                        !.rows = Listing(reads[k].of)]]
      BY <1>3 DEF ReadList
    <3> QED  BY <1>0, <2>2, <3>1, ExceptSeq DEF ReadsFit
  <2>4. ReadsFit'
    BY <1>0, <2>3 DEF ReadsFit, ListRequest, Rows
  <2>5. PlacesFit'
    BY <1>0, <1>3, PlacesRest DEF ReadList
  <2> QED  BY <1>1, <1>2, <2>4, <2>5 DEF ListMore
<1>4. CASE ListAnswer(k) \/ ListFails(k)
  <2>1. ReadsFit'
    BY <1>0, <1>4, ReadsShrink DEF ListAnswer, ListFails
  <2>2. listed' \in Rows /\ UNCHANGED <<view, picked, commands>>
    BY <1>0, <1>4 DEF ListAnswer, ListFails, PlacesFit
  <2>3. PlacesFit'
    BY <1>0, <2>2 DEF PlacesFit, Rows, ListCommand
  <2> QED  BY <1>1, <1>2, <2>1, <2>3 DEF ListMore
<1> QED  BY <1>3, <1>4

\* Another view: the loads of the one before it are not shown any more.
LEMMA ViewKept == ASSUME ListMore, NEW v \in Views, SwitchView(v) PROVE ListMore'
<1>0. RowsFit /\ ReadsFit /\ PlacesFit /\ SignsFit
  BY DEF ListMore
<1>1. RowsFit' /\ SignsFit'
  BY <1>0, RowsRest DEF SwitchView, SignsFit
<1>2. PlacesFit'
  BY <1>0 DEF SwitchView, PlacesFit, Rows, ListCommand
<1>3. ReadsFit'
  <2> DEFINE s == [k \in DOMAIN reads |-> [reads[k] EXCEPT !.current = FALSE]]
  <2>1. reads \in Seq(ListRequest) /\ Len(reads) \in Nat /\ DOMAIN reads = 1 .. Len(reads)
        /\ \A k \in 1 .. Len(reads) : reads[k] \in ListRequest
    BY <1>0, LenProperties DEF ReadsFit
  <2>2. s \in [1 .. Len(reads) -> ListRequest]
    BY <2>1 DEF ListRequest
  <2>3. s \in Seq(ListRequest) /\ Len(s) = Len(reads)
    BY <2>1, <2>2, SeqDef, LenProperties
  <2>4. reads' = Append(s, ListRead(v, "load")) /\ Len(reads) < MaxListReads
    BY DEF SwitchView, ViewLoads
  <2> HIDE DEF s
  <2>5. ListRead(v, "load") \in ListRequest
    BY RequestsList
  <2>6. reads' \in Seq(ListRequest) /\ Len(reads') = Len(reads) + 1
    BY <2>3, <2>4, <2>5, AppendProperties
  <2> QED  BY <2>1, <2>4, <2>6, ChatsAreCounted DEF ReadsFit, ListRequest, Rows
<1> QED  BY <1>1, <1>2, <1>3 DEF ListMore

LEMMA CommandsGrow ==
  ASSUME PlacesFit, NEW c \in Chats, NEW op \in {"clear", "mark", "pin", "archive", "unarchive"},
         StartCommand(op, c)
  PROVE  commands' \subseteq ListCommand
<1>1. [op |-> op, chat |-> c, view |-> view] \in ListCommand
  BY DEF PlacesFit, ListCommand
<1> QED  BY <1>1 DEF PlacesFit, StartCommand

\* What the agent clicks.
LEMMA ClicksKept ==
  ASSUME ListMore, NEW c \in Chats, Open(c) \/ Jump(c) \/ Command(c)
  PROVE  ListMore'
<1>0. RowsFit /\ ReadsFit /\ PlacesFit /\ SignsFit
  BY DEF ListMore
<1>1. RowsFit' /\ ReadsFit' /\ SignsFit'
  BY <1>0, RowsRest, ReadsRest DEF Open, Jump, Command, SignsFit
<1>2. commands' \subseteq ListCommand
  <2>1. CASE Open(c)
    BY <1>0, <2>1, CommandsGrow DEF Open, PlacesFit
  <2>2. CASE Jump(c)
    BY <1>0, <2>2 DEF Jump, PlacesFit
  <2>3. CASE Command(c)
    <3>1. PICK op \in {"mark", "pin", "archive", "unarchive"} : StartCommand(op, c)
      BY <2>3 DEF Command
    <3> QED  BY <1>0, <3>1, CommandsGrow
  <2> QED  BY <2>1, <2>2, <2>3
<1>3. PlacesFit'
  <2>1. listed' = listed /\ view' = view /\ picked' \in Chats \cup {NoChat}
    BY <1>0 DEF Open, Jump, Command, PlacesFit
  <2> QED  BY <1>0, <1>2, <2>1 DEF PlacesFit, Rows, ListCommand
<1> QED  BY <1>1, <1>3 DEF ListMore

\* What the API answers to a command.
LEMMA CommandKeeps ==
  ASSUME ListMore, NEW m \in commands, CommandAnswer(m) \/ CommandFails(m)
  PROVE  ListMore'
<1>0. RowsFit /\ ReadsFit /\ PlacesFit /\ SignsFit /\ m \in ListCommand
  BY DEF ListMore, PlacesFit
<1>1. m.chat \in Chats /\ m.op \in {"clear", "mark", "pin", "archive", "unarchive"} /\ m.view \in Views
  BY <1>0 DEF ListCommand
<1>2. CASE CommandAnswer(m)
  <2>1. RowsFit'
    <3>1. rows' = [rows EXCEPT ![m.chat] = Effect(rows[m.chat], m.op)] /\ Change
      BY <1>2 DEF CommandAnswer
    <3> QED  BY <1>0, <1>1, <3>1, RowsChange
  <2>2. ReadsFit'
    BY <1>0, <1>1, <1>2, ReadsGrow DEF CommandAnswer
  <2>3. PlacesFit'
    BY <1>0, <1>2 DEF CommandAnswer, PlacesFit, Rows, ListCommand
  <2>4. SignsFit'
    BY <1>0, <1>2 DEF CommandAnswer, SignsFit
  <2> QED  BY <2>1, <2>2, <2>3, <2>4 DEF ListMore
<1>3. CASE CommandFails(m)
  <2>1. RowsFit' /\ ReadsFit'
    BY <1>0, <1>3, RowsRest, ReadsRest DEF CommandFails
  <2>2. PlacesFit'
    BY <1>0, <1>3 DEF CommandFails, PlacesFit, Rows, ListCommand
  <2>3. SignsFit'
    BY <1>0, <1>3, ChatsAreCounted DEF CommandFails, SignsFit, InboxFault
  <2> QED  BY <2>1, <2>2, <2>3 DEF ListMore
<1> QED  BY <1>2, <1>3

\* The rest of the world, and the realtime connection.
LEMMA WorldKept ==
  ASSUME ListMore,
         (\E c \in Chats : ChatChanges(c)) \/ HearOfChat \/ DueFires \/ PollList \/ GoLive \/ GoOffline
  PROVE  ListMore'
<1>0. RowsFit /\ ReadsFit /\ PlacesFit /\ SignsFit /\ view \in Views
  BY DEF ListMore, PlacesFit
<1>1. ASSUME NEW c \in Chats, ChatChanges(c) PROVE ListMore'
  <2>1. PICK op \in {"pin", "archive"} : rows' = [rows EXCEPT ![c] = Effect(rows[c], op)]
    BY <1>1 DEF ChatChanges
  <2>2. RowsFit'
    BY <1>0, <1>1, <2>1, RowsChange DEF ChatChanges
  <2>3. ReadsFit' /\ PlacesFit' /\ SignsFit'
    BY <1>0, <1>1, ReadsRest, PlacesRest DEF ChatChanges, SignsFit
  <2> QED  BY <2>2, <2>3 DEF ListMore
<1>2. CASE HearOfChat \/ GoOffline
  <2>1. RowsFit' /\ ReadsFit' /\ PlacesFit'
    BY <1>0, <1>2, RowsRest, ReadsRest, PlacesRest DEF HearOfChat, GoOffline
  <2>2. SignsFit'
    <3>1. CASE HearOfChat
      BY <1>0, <3>1 DEF HearOfChat, SignsFit
    <3>2. CASE GoOffline
      <4>1. live' = FALSE /\ told' = told /\ due' = due
        BY <3>2 DEF GoOffline
      <4>2. inboxFaults < MaxInboxFaults /\ inboxFaults' = inboxFaults + 1
        BY <3>2 DEF GoOffline, InboxFault
      <4>3. inboxFaults \in 0 .. MaxInboxFaults /\ MaxInboxFaults \in Nat
        BY <1>0, ChatsAreCounted DEF SignsFit
      <4>4. inboxFaults' \in 0 .. MaxInboxFaults
        BY <4>2, <4>3
      <4> QED  BY <1>0, <4>1, <4>4 DEF SignsFit
    <3> QED  BY <1>2, <3>1, <3>2
  <2> QED  BY <2>1, <2>2 DEF ListMore
<1>3. CASE DueFires \/ PollList \/ GoLive
  <2>1. RowsFit' /\ ReadsFit' /\ PlacesFit'
    BY <1>0, <1>3, RowsRest, ReadsGrow, PlacesRest DEF DueFires, PollList, GoLive
  <2>2. SignsFit'
    BY <1>0, <1>3 DEF DueFires, PollList, GoLive, SignsFit
  <2> QED  BY <2>1, <2>2 DEF ListMore
<1> QED  BY <1>1, <1>2, <1>3

LEMMA ListStep == ListMore /\ [InboxMoves]_inboxVars => ListMore'
<1> SUFFICES ASSUME ListMore, [InboxMoves]_inboxVars PROVE ListMore'
  OBVIOUS
<1>1. CASE ListNext
  BY <1>1, ReadsKept, ViewKept, ClicksKept, CommandKeeps, WorldKept DEF ListNext
<1>2. CASE UNCHANGED listVars
  <2>1. RowsFit' /\ ReadsFit' /\ PlacesFit'
    BY <1>2, RowsRest, ReadsRest, PlacesRest DEF ListMore, listVars
  <2>2. SignsFit'
    BY <1>2 DEF ListMore, SignsFit, listVars
  <2> QED  BY <2>1, <2>2 DEF ListMore
<1>3. CASE ChatMade
  <2>1. ReadsFit'
    BY <1>3, ReadsGrow DEF ListMore, ChatMade, PlacesFit
  <2>2. RowsFit' /\ SignsFit'
    BY <1>3, RowsRest DEF ListMore, ChatMade, SignsFit
  <2>3. PlacesFit'
    BY <1>3 DEF ListMore, ChatMade, PlacesFit, Rows, ListCommand
  <2> QED  BY <2>1, <2>2, <2>3 DEF ListMore
<1>4. CASE AlertNext
  BY <1>2, <1>4 DEF AlertNext, Hear, MarkRead, MarkAllRead, ClearAlerts
<1> QED  BY <1>1, <1>2, <1>3, <1>4 DEF InboxMoves, inboxVars

LEMMA InboxTyped == ListMore /\ AlertsMore => InboxTypeOK
<1> SUFFICES ASSUME ListMore, AlertsMore PROVE InboxTypeOK
  OBVIOUS
<1> QED  BY DEF ListMore, AlertsMore, AlertsFit, RowsFit, ReadsFit, PlacesFit, SignsFit, InboxTypeOK,
                ListRequest, ListCommand

-----------------------------------------------------------------------------
(* What an agent writes: its types, given where the texts are counted. *)

\* What can be on screen.
Screens == Chats \cup {NoChat}
Submissions == [to : Screens, text : Nat, file : BOOLEAN, as : Modes, served : BOOLEAN]
FlagsFit == attachment \in BOOLEAN /\ degraded \in BOOLEAN /\ drafting \in Screens
TextsFit == texts \in Seq(TextOf(Screens))
DialogFits == /\ dialogs \in 0 .. MaxDialogs /\ dialog.n \in {0, dialogs}
             /\ dialog.file \in BOOLEAN /\ dialog.submitting \in BOOLEAN
CreatingFits == \A d \in creating : d.step \in {"create", "media", "done"}
ComposerFits == TextsFit /\ FlagsFit /\ submission \in Submissions /\ DialogFits /\ CreatingFits

LEMMA TextFits ==
  ASSUME TextsFit, NEW c \in Screens, NEW as \in Modes, Text(c, as) PROVE TextsFit'
<1>1. [for |-> c, as |-> as, taken |-> FALSE] \in TextOf(Screens)
  BY DEF TextOf
<1> QED  BY <1>1, AppendProperties DEF TextsFit, Text, TextOf

LEMMA WritingStarts == ComposerInit => ComposerFits
<1> SUFFICES ASSUME ComposerInit PROVE ComposerFits
  OBVIOUS
<1>1. TextsFit /\ CreatingFits
  <2>1. texts = <<>> /\ creating = {}
    BY DEF ComposerInit
  <2> QED  BY <2>1 DEF TextsFit, CreatingFits
<1>4. FlagsFit
  <2>1. attachment = FALSE /\ degraded = FALSE /\ drafting = NoChat
    BY DEF ComposerInit
  <2> QED  BY <2>1, Zenon DEF FlagsFit, Screens
<1>2. submission \in Submissions
  BY DEF ComposerInit, Submissions, Idle, Screens, Modes
<1>3. DialogFits
  BY ComposerAssumption DEF ComposerInit, DialogFits, NoDialog
<1> QED  BY <1>1, <1>2, <1>3, <1>4 DEF ComposerFits

\* The text, and the signs around it.
LEMMA WordsFit ==
  ASSUME ComposerMore, ComposerFits, ListMore, ComposerNext PROVE TextsFit' /\ FlagsFit'
<1>0. TextsFit /\ FlagsFit /\ OnScreen \in Screens /\ mode \in Modes
  BY ScreenFits DEF ComposerMore, ComposerFits, WritingOK, Screens
<1>1. CASE Write \/ suggestReply \/ Suggestion \/ SuggestionFails
  <2>1. TextsFit'
    BY <1>0, <1>1, TextFits DEF Write, suggestReply, Suggestion, SuggestionFails, FlagsFit, TextsFit, Modes
  <2>2. FlagsFit'
    BY <1>0, <1>1 DEF Write, suggestReply, Suggestion, SuggestionFails, FlagsFit, Screens
  <2> QED  BY <2>1, <2>2
<1>2. ASSUME NEW m \in Modes, Quote(m) PROVE TextsFit' /\ FlagsFit'
  BY <1>0, <1>2, TextFits DEF Quote, FlagsFit
<1>3. ASSUME NEW m \in Modes, selectMode(m) PROVE TextsFit' /\ FlagsFit'
  <2>1. TextsFit'
    <3>1. CASE body # 0 /\ m = "reply"
      <4>1. body \in DOMAIN texts /\ texts' = [texts EXCEPT ![body].taken = TRUE]
        BY <1>3, <3>1, TextsCounted DEF ComposerMore, WritingOK, selectMode
      <4>2. texts[body] \in TextOf(Screens)
        BY <1>0, <4>1, LenProperties DEF TextsFit
      <4>3. [texts[body] EXCEPT !.taken = TRUE] \in TextOf(Screens)
        BY <4>2 DEF TextOf
      <4>4. texts' = [texts EXCEPT ![body] = [texts[body] EXCEPT !.taken = TRUE]]
        BY <4>1
      <4> QED  BY <1>0, <4>1, <4>3, <4>4, ExceptSeq DEF TextsFit
    <3>2. CASE ~(body # 0 /\ m = "reply")
      BY <1>0, <1>3, <3>2 DEF selectMode, TextsFit
    <3> QED  BY <3>1, <3>2
  <2>2. FlagsFit'
    BY <1>0, <1>3 DEF selectMode, FlagsFit
  <2> QED  BY <2>1, <2>2
<1>4. CASE Attach \/ PhonesRead \/ handleSubmit \/ Served \/ Submitted \/ SubmitFails
  BY <1>0, <1>4 DEF Attach, PhonesRead, handleSubmit, Served, Submitted, SubmitFails, TextsFit, FlagsFit
<1>5. CASE OpenDialog
  <2>1. NoChat \in Screens /\ "reply" \in Modes
    BY DEF Screens, Modes
  <2> QED  BY <1>0, <1>5, <2>1, TextFits DEF OpenDialog, FlagsFit
<1>6. CASE CloseDialog \/ submit
  BY <1>0, <1>6 DEF CloseDialog, submit, TextsFit, FlagsFit
<1>7. ASSUME NEW d \in creating, Create(d) \/ SendMedia(d) \/ CreateFails(d) \/ \E c \in Chats : Created(d, c)
      PROVE  TextsFit' /\ FlagsFit'
  BY <1>0, <1>7 DEF Create, SendMedia, CreateFails, Created, TextsFit, FlagsFit
<1> QED  BY <1>1, <1>2, <1>3, <1>4, <1>5, <1>6, <1>7 DEF ComposerNext, ComposerStep

LEMMA SubmissionFits ==
  ASSUME ComposerMore, ComposerFits, ListMore, ComposerNext PROVE submission' \in Submissions
<1>0. /\ submission \in Submissions /\ OnScreen \in Screens /\ mode \in Modes
      /\ body \in Nat /\ attachment \in BOOLEAN
  <2>1. Len(texts) \in Nat
    BY TextsCounted DEF ComposerMore
  <2> QED  BY <2>1, ScreenFits DEF ComposerMore, ComposerFits, WritingOK, Screens, FlagsFit
<1>1. CASE handleSubmit
  <2>1. submission' = [to |-> OnScreen, text |-> body, file |-> attachment, as |-> mode,
                       served |-> FALSE]
    BY <1>1 DEF handleSubmit
  <2> HIDE DEF OnScreen
  <2> QED  BY <1>0, <2>1 DEF Submissions
<1>2. CASE Served
  BY <1>0, <1>2 DEF Served, Submissions
<1>3. CASE Submitted \/ SubmitFails
  <2>1. Idle \in Submissions
    BY DEF Idle, Submissions, Screens, Modes
  <2> QED  BY <1>3, <2>1 DEF Submitted, SubmitFails
<1>4. CASE UNCHANGED submission
  BY <1>0, <1>4
<1> QED  BY <1>1, <1>2, <1>3, <1>4
         DEF ComposerNext, ComposerStep, Write, suggestReply, Suggestion, SuggestionFails, Quote,
             selectMode, Attach, PhonesRead, OpenDialog, CloseDialog, submit, Create, SendMedia,
             CreateFails, Created

LEMMA DialogsFit ==
  ASSUME ComposerMore, ComposerFits, ComposerNext PROVE DialogFits' /\ CreatingFits'
<1>0. DialogFits /\ CreatingFits /\ DOMAIN dialog = {"n", "text", "file", "submitting"}
      /\ \A d \in creating : DOMAIN d = {"n", "text", "file", "step"}
  BY DEF ComposerMore, ComposerFits, DialogsOK
<1>1. /\ dialogs \in Nat /\ MaxDialogs \in Nat
  BY <1>0, ComposerAssumption DEF DialogFits
<1>2. NoDialog.n = 0 /\ NoDialog.file = FALSE /\ NoDialog.submitting = FALSE
  BY DEF NoDialog
<1>3. CASE OpenDialog
  <2>1. PICK file \in BOOLEAN :
          dialog' = [n |-> dialogs', text |-> NewText, file |-> file, submitting |-> FALSE]
    BY <1>3 DEF OpenDialog
  <2>2. dialogs' = dialogs + 1 /\ dialogs < MaxDialogs /\ creating' = creating
    BY <1>3 DEF OpenDialog
  <2>3. dialogs' \in 0 .. MaxDialogs
    BY <1>1, <2>2
  <2> QED  BY <1>0, <2>1, <2>2, <2>3 DEF DialogFits, CreatingFits
<1>4. CASE CloseDialog \/ \E d \in creating, c \in Chats : Created(d, c)
  <2>1. dialog' = NoDialog /\ dialogs' = dialogs /\ creating' \subseteq creating
    BY <1>4 DEF CloseDialog, Created
  <2> QED  BY <1>0, <1>2, <2>1 DEF DialogFits, CreatingFits
<1>5. CASE submit
  <2>1. dialog' = [dialog EXCEPT !.submitting = TRUE] /\ dialogs' = dialogs
    BY <1>5 DEF submit
  <2>2. dialog'.n = dialog.n /\ dialog'.file = dialog.file /\ dialog'.submitting = TRUE
    BY <1>0, <2>1
  <2>3. DialogFits'
    BY <1>0, <2>1, <2>2 DEF DialogFits
  <2>4. CreatingFits'
    BY <1>0, <1>5 DEF submit, CreatingFits
  <2> QED  BY <2>3, <2>4
<1>6. ASSUME NEW d \in creating, Create(d) \/ SendMedia(d) PROVE DialogFits' /\ CreatingFits'
  <2>1. UNCHANGED <<dialog, dialogs>>
    BY <1>6 DEF Create, SendMedia
  <2>2. PICK s \in {"media", "done"} : creating' = (creating \ {d}) \cup {[d EXCEPT !.step = s]}
    BY <1>6 DEF Create, SendMedia
  <2>3. [d EXCEPT !.step = s].step = s
    BY <1>0
  <2> QED  BY <1>0, <2>1, <2>2, <2>3 DEF DialogFits, CreatingFits
<1>7. ASSUME NEW d \in creating, CreateFails(d) PROVE DialogFits' /\ CreatingFits'
  <2>1. creating' = creating \ {d} /\ dialogs' = dialogs
        /\ (dialog' = [dialog EXCEPT !.submitting = FALSE] \/ dialog' = dialog)
    BY <1>7 DEF CreateFails
  <2>2. /\ dialog'.n = dialog.n /\ dialog'.file = dialog.file
        /\ dialog'.submitting = FALSE \/ dialog'.submitting = dialog.submitting
    BY <1>0, <2>1
  <2> QED  BY <1>0, <2>1, <2>2 DEF DialogFits, CreatingFits
<1>8. CASE UNCHANGED <<dialog, dialogs, creating>>
  BY <1>0, <1>8 DEF DialogFits, CreatingFits
<1> QED  BY <1>3, <1>4, <1>5, <1>6, <1>7, <1>8
         DEF ComposerNext, ComposerStep, Write, suggestReply, Suggestion, SuggestionFails, Quote,
             selectMode, Attach, PhonesRead, handleSubmit, Served, Submitted, SubmitFails

LEMMA WritingGoesOn ==
  ComposerMore /\ ComposerFits /\ ListMore /\ [ComposerNext]_composerVars => ComposerFits'
<1> SUFFICES ASSUME ComposerMore, ComposerFits, ListMore, [ComposerNext]_composerVars
             PROVE  ComposerFits'
  OBVIOUS
<1>1. CASE ComposerNext
  <2>1. submission' \in Submissions'
    BY <1>1, SubmissionFits DEF Submissions, Screens
  <2> QED  BY <1>1, <2>1, WordsFit, DialogsFit DEF ComposerFits
<1>2. CASE UNCHANGED composerVars
  BY <1>2 DEF composerVars, ComposerFits, TextsFit, FlagsFit, DialogFits, CreatingFits
<1> QED  BY <1>1, <1>2

LEMMA ComposerTyped == ComposerMore /\ ComposerFits => ComposerTypeOK
<1> SUFFICES ASSUME ComposerMore, ComposerFits PROVE ComposerTypeOK
  OBVIOUS
<1>1. /\ Len(texts) <= MaxTexts
      /\ texts \in Seq([for : Chats \cup {NoChat}, as : Modes, taken : BOOLEAN])
  BY DEF ComposerMore, TextsOK, ComposerFits, TextsFit, TextOf, Screens
<1>2. mode \in Modes /\ {body, submission.text, dialog.text} \subseteq 0 .. Len(texts)
      /\ \A d \in creating : d.n \in 1 .. dialogs
  BY DEF ComposerMore, WritingOK, DialogsOK
<1>3. /\ submission \in [to : Chats \cup {NoChat}, text : Nat, file : BOOLEAN, as : Modes,
                         served : BOOLEAN]
      /\ drafting \in Chats \cup {NoChat}
      /\ \A d \in creating : d.step \in {"create", "media", "done"}
      /\ dialog.n \in {0, dialogs} /\ dialogs \in 0 .. MaxDialogs
  BY DEF ComposerFits, Submissions, FlagsFit, DialogFits, CreatingFits, Screens
<1>4. {attachment, degraded, dialog.file, dialog.submitting} \subseteq BOOLEAN
  BY Zenon DEF ComposerFits, FlagsFit, DialogFits
<1> QED  BY <1>1, <1>2, <1>3, <1>4 DEF ComposerTypeOK

-----------------------------------------------------------------------------
(* The types of the pane. *)

PaneFits == /\ pane \in Pane /\ Len(requests) <= MaxRequests
            /\ emitted \subseteq Channels /\ synced \subseteq Channels
            /\ online \in BOOLEAN /\ joined \in BOOLEAN /\ timer \in BOOLEAN
            /\ webFaults \in 0 .. MaxWebFaults

LEMMA PaneStarts == WebInit => PaneFits
<1> SUFFICES ASSUME WebInit PROVE PaneFits
  OBVIOUS
<1>1. MaxStored \in Nat /\ MaxRequests \in Nat \ {0} /\ MaxWebFaults \in Nat
  BY WebAssumption
<1>2. pane \in Pane
  BY <1>1 DEF WebInit, Pane
<1>3. Len(requests) <= MaxRequests /\ emitted = {} /\ synced = {} /\ webFaults \in 0 .. MaxWebFaults
  BY <1>1 DEF WebInit
<1>4. online \in BOOLEAN /\ joined \in BOOLEAN /\ timer \in BOOLEAN
  BY Zenon DEF WebInit
<1> QED  BY <1>2, <1>3, <1>4 DEF PaneFits

\* The pane, and how many requests there are.
LEMMA PaneMoves ==
  ASSUME PaneMore, PaneFits, WebNext PROVE pane' \in Pane /\ Len(requests') <= MaxRequests
<1>0. /\ requests \in Seq(Request) /\ Len(requests) \in Nat /\ DOMAIN requests = 1 .. Len(requests)
      /\ MaxRequests \in Nat
  BY WebAssumption, LenProperties DEF PaneMore
<1>1. ASSUME NEW c, NEW kind, NEW s, Len(s) = Len(requests), s \in Seq(Request),
             Len(requests) < MaxRequests, requests' = Append(s, Sent(c, kind)),
             pane' = [pane EXCEPT !.status = "loading"], c \in Channels,
             kind \in {"load", "refresh"}
      PROVE  pane' \in Pane /\ Len(requests') <= MaxRequests
  <2>1. Len(requests') = Len(s) + 1
    BY <1>1, SentFits, AppendProperties
  <2>2. pane' \in Pane
    BY <1>1 DEF PaneFits, Pane
  <2> QED  BY <1>0, <1>1, <2>1, <2>2
<1>2. ASSUME NEW c \in Channels, Refresh(c) PROVE pane' \in Pane /\ Len(requests') <= MaxRequests
  BY <1>0, <1>1, <1>2 DEF Refresh
<1>3. ASSUME NEW c \in Channels, Select(c) PROVE pane' \in Pane /\ Len(requests') <= MaxRequests
  <2> DEFINE s == [k \in DOMAIN requests |-> [requests[k] EXCEPT !.current = FALSE]]
  <2>1. s \in [1 .. Len(requests) -> Request]
    <3>1. \A k \in 1 .. Len(requests) : requests[k] \in Request
      BY <1>0, LenProperties
    <3> QED  BY <1>0, <3>1 DEF Request
  <2>2. s \in Seq(Request) /\ Len(s) = Len(requests)
    BY <1>0, <2>1, LenProperties, SeqDef
  <2>3. requests' = Append(s, Sent(c, "load")) /\ Len(requests) < MaxRequests
        /\ pane' = [pane EXCEPT !.status = "loading"]
    BY <1>3 DEF Select, Load
  <2> HIDE DEF s
  <2> QED  BY <1>1, <2>2, <2>3
<1>4. ASSUME NEW k \in DOMAIN requests, TimelineAnswer(k) \/ TimelineFails(k)
      PROVE  pane' \in Pane /\ Len(requests') <= MaxRequests
  <2>1. Len(requests') = Len(requests) - 1
    BY <1>0, <1>4, RemoveOne DEF TimelineAnswer, TimelineFails
  <2>2. requests[k] \in Request
    BY <1>0, LenProperties
  <2>3. pane' \in Pane
    <3>1. CASE pane' = pane
      BY <3>1 DEF PaneFits
    <3>2. CASE pane' = [pane EXCEPT !.status = "error"]
      BY <3>2 DEF PaneFits, Pane
    <3>3. CASE pane' = [of |-> requests[k].of, upto |-> requests[k].upto, status |-> "success",
                        by |-> requests[k].kind]
      BY <2>2, <3>3 DEF Request, Pane
    <3> QED  BY <1>4, <3>1, <3>2, <3>3 DEF TimelineAnswer, TimelineFails
  <2> QED  BY <1>0, <2>1, <2>3 DEF PaneFits
<1>5. ASSUME NEW k \in DOMAIN requests, ReadTimeline(k)
      PROVE  pane' \in Pane /\ Len(requests') <= MaxRequests
  <2> DEFINE r == [requests[k] EXCEPT !.answered = TRUE, !.upto = stored[requests[k].of]]
  <2>1. requests' = [requests EXCEPT ![k] = r]
    BY <1>5 DEF ReadTimeline
  <2>2. Len(requests') = Len(requests)
    <3> HIDE DEF r
    <3> QED  BY <1>0, <2>1
  <2> QED  BY <1>5, <2>2 DEF ReadTimeline, PaneFits
<1>6. ASSUME UNCHANGED <<pane, requests>> PROVE pane' \in Pane /\ Len(requests') <= MaxRequests
  BY <1>6 DEF PaneFits
<1>7. ASSUME NEW c \in Channels, SyncAnswer(c) PROVE pane' \in Pane /\ Len(requests') <= MaxRequests
  BY <1>2, <1>7 DEF SyncAnswer
<1>8. CASE Poll \/ Reconcile \/ Connect \/ TimerFires
  BY <1>2, <1>8 DEF Poll, Reconcile, Connect, TimerFires, PaneMore
<1>9. CASE AutoSync \/ MenuRefresh \/ Join \/ LoseRealtime
           \/ \E c \in Channels : SyncFails(c) \/ StoreMessage(c) \/ DeliverEvent(c)
  BY <1>6, <1>9 DEF AutoSync, MenuRefresh, Join, LoseRealtime, SyncFails, StoreMessage, DeliverEvent
<1> QED  BY <1>3, <1>4, <1>5, <1>7, <1>8, <1>9 DEF WebNext

LEMMA WebFaultFits ==
  ASSUME webFaults \in 0 .. MaxWebFaults, WebFault PROVE webFaults' \in 0 .. MaxWebFaults
<1>1. MaxWebFaults \in Nat
  BY WebAssumption
<1> QED  BY <1>1 DEF WebFault

LEMMA PaneGoesOn == PaneMore /\ PaneFits /\ [WebNext]_webVars => PaneFits'
<1> SUFFICES ASSUME PaneMore, PaneFits, [WebNext]_webVars PROVE PaneFits'
  OBVIOUS
<1>1. CASE WebNext
  <2>1. pane' \in Pane /\ Len(requests') <= MaxRequests
    BY <1>1, PaneMoves
  <2>2. webFaults' \in 0 .. MaxWebFaults
    <3>1. WebFault \/ webFaults' = webFaults
      BY <1>1 DEF WebNext, ReadTimeline, TimelineAnswer, TimelineFails, Select, SyncAnswer, SyncFails,
           StoreMessage, DeliverEvent, Poll, Reconcile, AutoSync, MenuRefresh, Connect, Join,
           LoseRealtime, TimerFires
    <3> QED  BY <3>1, WebFaultFits DEF PaneFits
  <2>3. emitted' \subseteq Channels /\ synced' \subseteq Channels
    BY <1>1 DEF WebNext, ReadTimeline, TimelineAnswer, TimelineFails, Select, SyncAnswer, SyncFails,
           StoreMessage, DeliverEvent, Poll, Reconcile, AutoSync, MenuRefresh, Connect, Join,
           LoseRealtime, TimerFires, PaneFits, PaneMore
  <2>4. online' \in BOOLEAN /\ joined' \in BOOLEAN /\ timer' \in BOOLEAN
    BY <1>1 DEF WebNext, ReadTimeline, TimelineAnswer, TimelineFails, Select, SyncAnswer, SyncFails,
           StoreMessage, DeliverEvent, Poll, Reconcile, AutoSync, MenuRefresh, Connect, Join,
           LoseRealtime, TimerFires, PaneFits
  <2> QED  BY <2>1, <2>2, <2>3, <2>4 DEF PaneFits
<1>2. CASE UNCHANGED webVars
  BY <1>2 DEF webVars, PaneFits
<1> QED  BY <1>1, <1>2

LEMMA PaneTyped == PaneMore /\ PaneFits => WebTypeOK
<1> SUFFICES ASSUME PaneMore, PaneFits PROVE WebTypeOK
  OBVIOUS
<1>1. {online, joined, timer} \subseteq BOOLEAN
  BY Zenon DEF PaneFits
<1> QED  BY <1>1 DEF PaneMore, PaneFits, WebTypeOK

-----------------------------------------------------------------------------
(* The types of what is done with a message. *)

OpenFits == /\ switches \in 0 .. MaxSwitches /\ sending \in BOOLEAN
            /\ fileView \in {"idle", "loading", "ready", "error"}
            /\ viewer \in Bubbles \cup {NoBubble}
            /\ quoted \in {<<>>} \cup (Bubbles \X PaneChats)
            /\ tickets \subseteq Bubbles \X PaneChats

LEMMA OpenStarts == ActionsInit => OpenFits
<1> SUFFICES ASSUME ActionsInit PROVE OpenFits
  OBVIOUS
<1>1. switches \in 0 .. MaxSwitches
  BY ActionBounds DEF ActionsInit
<1>2. sending \in BOOLEAN
  BY Zenon DEF ActionsInit
<1> QED  BY <1>1, <1>2 DEF ActionsInit, OpenFits

LEMMA OpenGoesOn == ActionsMore /\ OpenFits /\ [ActionsNext]_actionVars => OpenFits'
<1> SUFFICES ASSUME ActionsMore, OpenFits, [ActionsNext]_actionVars PROVE OpenFits'
  OBVIOUS
<1>1. CASE SwitchChat
  <2>1. switches' \in 0 .. MaxSwitches
    BY <1>1, ActionBounds DEF SwitchChat, OpenFits
  <2>2. fileView' \in {"idle", "loading"} /\ UNCHANGED <<viewer, quoted, tickets>>
    BY <1>1 DEF SwitchChat
  <2>3. sending' \in BOOLEAN
    BY <1>1 DEF SwitchChat, OpenFits
  <2> QED  BY <2>1, <2>2, <2>3 DEF OpenFits
<1>2. CASE PreviewAnswer \/ \E c \in PaneChats : FileArrives(c)
  <2>1. fileView' \in {"idle", "loading", "ready", "error"}
    BY <1>2 DEF PreviewAnswer, FileArrives, OpenFits
  <2> QED  BY <1>2, <2>1 DEF PreviewAnswer, FileArrives, OpenFits
<1>3. CASE OpenMenu \/ Escape \/ CloseMenu \/ ChooseReact \/ viewAttachment \/ CreateTicket \/ PickReaction
  <2>1. sending' \in BOOLEAN /\ viewer' \in Bubbles \cup {NoBubble}
    BY <1>3 DEF OpenMenu, Escape, CloseMenu, ChooseReact, viewAttachment, CreateTicket, PickReaction,
                OpenFits
  <2>2. UNCHANGED <<switches, fileView, quoted, tickets>>
    BY <1>3 DEF OpenMenu, Escape, CloseMenu, ChooseReact, viewAttachment, CreateTicket, PickReaction
  <2> QED  BY <2>1, <2>2 DEF OpenFits
<1>4. CASE QuoteMessage
  <2>1. quoted' = <<menu, onScreen>> /\ menu \in Bubbles /\ onScreen \in PaneChats
    BY <1>4 DEF QuoteMessage, ActionsMore
  <2> QED  BY <1>4, <2>1 DEF QuoteMessage, OpenFits
<1>5. CASE TicketAnswer
  <2>1. PICK r \in demanded : tickets' = IF SourceFound(r) THEN tickets \cup {<<r.of, r.chat>>} ELSE tickets
    BY <1>5 DEF TicketAnswer
  <2>2. r.of \in Bubbles /\ r.chat \in PaneChats
    BY DEF ActionsMore, RequestsOK, ActionRequest
  <2> QED  BY <1>5, <2>1, <2>2 DEF TicketAnswer, OpenFits
<1>6. CASE ViewAnswer
  <2>1. PICK r \in demanded : viewer' \in {r.of, viewer}
    BY <1>6 DEF ViewAnswer
  <2>2. r.of \in Bubbles
    BY DEF ActionsMore, RequestsOK, ActionRequest
  <2> QED  BY <1>6, <2>1, <2>2 DEF ViewAnswer, OpenFits
<1>7. CASE ReactAnswer
  <2>1. sending' \in BOOLEAN
    BY <1>7 DEF ReactAnswer
  <2> QED  BY <1>7, <2>1 DEF ReactAnswer, OpenFits
<1>8. CASE UNCHANGED actionVars
  BY <1>8 DEF actionVars, OpenFits
<1> QED  BY <1>1, <1>2, <1>3, <1>4, <1>5, <1>6, <1>7, <1>8 DEF ActionsNext

LEMMA ActionsTyped == ActionsMore /\ OpenFits => ActionsTypeOK
<1> SUFFICES ASSUME ActionsMore, OpenFits PROVE ActionsTypeOK
  OBVIOUS
<1>1. {menu, picker, viewer} \subseteq Bubbles \cup {NoBubble}
  BY DEF ActionsMore, OpenFits
<1> QED  BY <1>1 DEF ActionsMore, RequestsOK, OpenFits, ActionsTypeOK

-----------------------------------------------------------------------------
(* The types of what is looked up. *)

FoundFits == found.word \in Texts /\ found.things \subseteq Things
BoxFits == /\ typed \in Texts /\ submitted \in Texts
           /\ debounce \in BOOLEAN /\ loading \in BOOLEAN /\ failed \in BOOLEAN
           /\ reach \in [Things -> 0 .. MaxReach] /\ tries \in 0 .. MaxTries
LookupsKnow == lookups \subseteq Lookup /\ FoundFits /\ BoxFits

LEMMA KnowingStarts == LookupsInit => LookupsKnow
<1> SUFFICES ASSUME LookupsInit PROVE LookupsKnow
  OBVIOUS
<1>1. lookups \subseteq Lookup /\ FoundFits
  BY DEF LookupsInit, FoundFits, NothingFound, Texts
<1>2. debounce \in BOOLEAN /\ loading \in BOOLEAN /\ failed \in BOOLEAN
  BY DEF LookupsInit
<1>3. tries \in 0 .. MaxTries
  BY LookupAssumption DEF LookupsInit
<1>4. reach \in [Things -> 0 .. MaxReach]
  <2>1. {0, 1} \subseteq 0 .. MaxReach
    BY LookupAssumption
  <2> QED  BY <2>1 DEF LookupsInit
<1> QED  BY <1>1, <1>2, <1>3, <1>4 DEF LookupsInit, LookupsKnow, BoxFits, Texts

LEMMA TriesCounted == tries \in 0 .. MaxTries /\ Try => tries' \in 0 .. MaxTries
<1>1. MaxTries \in Nat
  BY LookupAssumption
<1> QED  BY <1>1 DEF Try

\* A request that is outdated is one still.
LEMMA CancelledFits == lookups \subseteq Lookup => Cancelled \subseteq Lookup
  BY DEF Cancelled, Lookup

\* What the API finds are things.
LEMMA ThingsAreFound ==
  ASSUME NEW S, S \in searchForNewChat \/ S \in search PROVE S \subseteq Things
<1>1. CASE S \in search
  BY <1>1 DEF search, Hits
<1>2. CASE S \in searchForNewChat
  <2>1. PICK n \in PagesRead :
               S \in kSubset(Min({SearchLimit, Cardinality(Contacts(n))}), Contacts(n))
    BY <1>2 DEF searchForNewChat
  <2>2. S \subseteq Contacts(n)
    BY <2>1 DEF kSubset
  <2> QED  BY <2>2 DEF Contacts, Hits
<1> QED  BY <1>1, <1>2

LEMMA LookUpKnows ==
  ASSUME LookupsKnow, NEW word \in Texts, LookUp(word)
  PROVE  lookups' \subseteq Lookup /\ FoundFits' /\ debounce' \in BOOLEAN /\ loading' \in BOOLEAN
<1>1. lookups' \subseteq Lookup
  BY CancelledFits DEF LookupsKnow, LookUp
<1>2. FoundFits'
  BY DEF LookupsKnow, FoundFits, LookUp, NothingFound, Texts
<1>3. debounce' \in BOOLEAN /\ loading' \in BOOLEAN
  BY DEF LookupsKnow, BoxFits, LookUp
<1> QED  BY <1>1, <1>2, <1>3

LEMMA TypingKnows ==
  ASSUME LookupsKnow, Type \/ Rerender \/ pickContact PROVE LookupsKnow'
<1>0. /\ typed \in Texts /\ NoWord \in Texts /\ tries \in 0 .. MaxTries
      /\ lookups \subseteq Lookup /\ FoundFits /\ debounce \in BOOLEAN /\ loading \in BOOLEAN
  BY DEF LookupsKnow, BoxFits, Texts
<1>1. typed' \in Texts
  BY <1>0 DEF Type, Rerender, pickContact
<1>2. \/ UNCHANGED <<lookups, debounce, found, loading>>
      \/ \E word \in Texts : LookUp(word)
  BY <1>0 DEF Type, Rerender, pickContact
<1>3. lookups' \subseteq Lookup /\ FoundFits' /\ debounce' \in BOOLEAN /\ loading' \in BOOLEAN
  <2>1. CASE UNCHANGED <<lookups, debounce, found, loading>>
    BY <1>0, <2>1 DEF FoundFits
  <2>2. ASSUME NEW word \in Texts, LookUp(word)
        PROVE  lookups' \subseteq Lookup /\ FoundFits' /\ debounce' \in BOOLEAN /\ loading' \in BOOLEAN
    BY <2>2, LookUpKnows
  <2> QED  BY <1>2, <2>1, <2>2
<1>4. tries' \in 0 .. MaxTries
  <2>1. Try \/ tries' = tries
    BY DEF Type, Rerender, pickContact
  <2> QED  BY <1>0, <2>1, TriesCounted
<1>5. UNCHANGED <<failed, submitted, reach>>
  BY DEF Type, Rerender, pickContact
<1> QED  BY <1>1, <1>3, <1>4, <1>5 DEF LookupsKnow, BoxFits, FoundFits

LEMMA AskingKnows ==
  ASSUME LookupsKnow, DebounceFires \/ submitSearch PROVE LookupsKnow'
<1>1. NewLookup(typed) \in Lookup
  BY DEF LookupsKnow, BoxFits, NewLookup, Lookup
<1>2. lookups' \subseteq Lookup
  BY <1>1 DEF LookupsKnow, DebounceFires, submitSearch
<1>3. debounce' \in BOOLEAN /\ loading' \in BOOLEAN /\ failed' \in BOOLEAN /\ submitted' \in Texts
  BY DEF LookupsKnow, BoxFits, DebounceFires, submitSearch
<1>4. UNCHANGED <<typed, found, reach, tries>>
  BY DEF DebounceFires, submitSearch
<1> QED  BY <1>2, <1>3, <1>4 DEF LookupsKnow, BoxFits, FoundFits

LEMMA ReachKnows == ASSUME LookupsKnow, ReachChanges PROVE LookupsKnow'
<1>1. reach' \in [Things -> 0 .. MaxReach]
  BY DEF LookupsKnow, BoxFits, ReachChanges
<1>2. tries' \in 0 .. MaxTries
  BY TriesCounted DEF LookupsKnow, BoxFits, ReachChanges
<1>3. UNCHANGED <<typed, debounce, lookups, found, loading, failed, submitted>>
  BY DEF ReachChanges
<1> QED  BY <1>1, <1>2, <1>3 DEF LookupsKnow, BoxFits, FoundFits

LEMMA AnswersKnow ==
  ASSUME LookupsKnow, NEW l \in lookups, ReadThings(l) \/ LookupAnswer(l) \/ LookupFails(l)
  PROVE  LookupsKnow'
<1>0. /\ l \in Lookup /\ l.word \in Texts /\ l.things \subseteq Things /\ l.live \in BOOLEAN
      /\ lookups \subseteq Lookup /\ BoxFits /\ FoundFits
  BY DEF LookupsKnow, Lookup
<1>1. CASE ReadThings(l)
  <2>1. PICK S : /\ S \in searchForNewChat \/ S \in search
                 /\ lookups' = (lookups \ {l}) \cup {[l EXCEPT !.read = TRUE, !.things = S]}
    BY <1>1 DEF ReadThings
  <2>2. [l EXCEPT !.read = TRUE, !.things = S] \in Lookup
    BY <1>0, <2>1, ThingsAreFound DEF Lookup
  <2>3. lookups' \subseteq Lookup
    BY <1>0, <2>1, <2>2
  <2>4. UNCHANGED <<typed, debounce, found, loading, failed, submitted, reach, tries>>
    BY <1>1 DEF ReadThings
  <2> QED  BY <1>0, <2>3, <2>4 DEF LookupsKnow, BoxFits, FoundFits
<1>2. CASE LookupAnswer(l) \/ LookupFails(l)
  <2>1. lookups' \subseteq Lookup
    BY <1>0, <1>2 DEF LookupAnswer, LookupFails
  <2>2. FoundFits'
    BY <1>0, <1>2 DEF LookupAnswer, LookupFails, FoundFits, NothingFound, Texts
  <2>3. loading' \in BOOLEAN /\ failed' \in BOOLEAN
    BY <1>0, <1>2 DEF LookupAnswer, LookupFails, LoadingAfter, BoxFits
  <2>4. UNCHANGED <<typed, debounce, submitted, reach, tries>>
    BY <1>2 DEF LookupAnswer, LookupFails
  <2> QED  BY <1>0, <2>1, <2>2, <2>3, <2>4 DEF LookupsKnow, BoxFits
<1> QED  BY <1>1, <1>2

LEMMA KnowingGoesOn == LookupsKnow /\ [LookupsNext]_lookupVars => LookupsKnow'
<1>1. ASSUME LookupsKnow, UNCHANGED lookupVars PROVE LookupsKnow'
  BY <1>1 DEF lookupVars, LookupsKnow, BoxFits, FoundFits
<1> QED  BY <1>1, TypingKnows, AskingKnows, ReachKnows, AnswersKnow DEF LookupsNext

LEMMA LookupsTyped == LookupsMore /\ LookupsKnow => LookupsTypeOK
<1> SUFFICES ASSUME LookupsMore, LookupsKnow PROVE LookupsTypeOK
  OBVIOUS
<1>1. {debounce, loading, failed} \subseteq BOOLEAN
  BY Zenon DEF LookupsKnow, BoxFits
<1> QED  BY <1>1 DEF LookupsMore, LookupsFit, LookupsKnow, BoxFits, FoundFits, LookupsTypeOK

-----------------------------------------------------------------------------
(* The types of the screen that links a phone. *)

\* A QR that a request answered was issued.
QrsFit(s, n) == Len(s) <= MaxLinkCalls /\ \A k \in DOMAIN s : s[k].qr \in 0 .. n
Keys == Buttons \cup {"none", "autoQr"}
ScreenKnows == /\ phoneRead \in Statuses /\ shownPhone \in Statuses
               /\ issued \in 0 .. MaxQrs /\ qrImage \in 0 .. issued
               /\ actionKey \in Keys
MarksFit == /\ asked \in BOOLEAN /\ autoSynced \in BOOLEAN /\ chatsSynced \in BOOLEAN
            /\ failureTold \in BOOLEAN /\ unlinks \in BOOLEAN
MovesFit == moves \in 0 .. MaxPhoneMoves /\ linkFaults \in 0 .. MaxLinkFaults
LinkFits == QrsFit(linkCalls, issued) /\ ScreenKnows /\ MarksFit /\ MovesFit

LEMMA LinkBounds ==
  MaxQrs \in Nat /\ MaxLinkCalls \in Nat /\ MaxPhoneMoves \in Nat /\ MaxLinkFaults \in Nat
  BY LinkAssumption

LEMMA OneMoreQr ==
  ASSUME NEW n \in Nat, NEW s \in Seq(LinkCall), QrsFit(s, n), Len(s) < MaxLinkCalls,
         NEW c \in LinkCall, c.qr \in 0 .. n
  PROVE  QrsFit(Append(s, c), n)
<1> DEFINE t == Append(s, c)
<1>1. /\ Len(t) = Len(s) + 1 /\ t \in Seq(LinkCall)
      /\ \A i \in 1 .. Len(s) : t[i] = s[i]
      /\ t[Len(s) + 1] = c
  BY AppendProperties
<1> HIDE DEF t
<1>2. Len(s) \in Nat /\ DOMAIN s = 1 .. Len(s) /\ DOMAIN t = 1 .. Len(s) + 1
  BY <1>1, LenProperties
<1>3. Len(t) <= MaxLinkCalls
  BY <1>1, <1>2, LinkBounds
<1>4. ASSUME NEW k \in 1 .. Len(s) + 1 PROVE t[k].qr \in 0 .. n
  <2>1. k \in 1 .. Len(s) \/ k = Len(s) + 1
    BY <1>2
  <2> QED  BY <1>1, <1>2, <2>1 DEF QrsFit
<1>5. QrsFit(t, n)
  BY <1>2, <1>3, <1>4 DEF QrsFit
<1> QED  BY <1>5 DEF t

LEMMA OneQrLess ==
  ASSUME NEW n \in Nat, NEW s \in Seq(LinkCall), QrsFit(s, n), NEW k \in DOMAIN s
  PROVE  QrsFit(RemoveAt(s, k), n) /\ Len(RemoveAt(s, k)) < MaxLinkCalls
<1> DEFINE t == RemoveAt(s, k)
<1>1. Len(t) = Len(s) - 1 /\ \A i \in DOMAIN t : \E j \in DOMAIN s : t[i] = s[j]
  BY RemoveOne, OthersRemain
<1>2. Len(s) \in Nat
  BY LenProperties
<1> HIDE DEF t
<1>3. QrsFit(t, n) /\ Len(t) < MaxLinkCalls
  BY <1>1, <1>2, LinkBounds DEF QrsFit
<1> QED  BY <1>3 DEF t

LEMMA OneQrChanges ==
  ASSUME NEW n \in Nat, NEW m \in Nat, n <= m, NEW s \in Seq(LinkCall), QrsFit(s, n),
         NEW k \in DOMAIN s, NEW c \in LinkCall, c.qr \in 0 .. m
  PROVE  QrsFit([s EXCEPT ![k] = c], m)
<1> DEFINE t == [s EXCEPT ![k] = c]
<1>1. Len(t) = Len(s) /\ DOMAIN t = DOMAIN s
      /\ \A i \in DOMAIN s : t[i] = IF i = k THEN c ELSE s[i]
  BY ExceptSeq
<1> HIDE DEF t
<1>2. \A i \in DOMAIN s : s[i].qr \in 0 .. m
  BY DEF QrsFit
<1>3. QrsFit(t, m)
  BY <1>1, <1>2 DEF QrsFit
<1> QED  BY <1>3 DEF t

LEMMA NewCallIsFresh ==
  ASSUME NEW op \in Buttons \cup Background, NEW at \in {"create", "connect", "repair", "ask", "sync", "done"}
  PROVE  NewLinkCall(op, at) \in LinkCall /\ NewLinkCall(op, at).qr = 0
  BY DEF NewLinkCall, LinkCall, Statuses

LEMMA LinkKnown ==
  LinkMore /\ LinkFits =>
    /\ linkCalls \in Seq(LinkCall) /\ issued \in Nat /\ MaxQrs \in Nat
    /\ \A k \in DOMAIN linkCalls : linkCalls[k] \in LinkCall /\ linkCalls[k].qr \in 0 .. issued
  BY LinkBounds DEF LinkMore, CallsFit, CallFits, LinkFits, ScreenKnows, QrsFit

LEMMA RenderFits ==
  ASSUME NEW status \in Statuses, NEW image \in 0 .. issued, NEW rest \in Seq(LinkCall),
         NEW key \in Keys, issued \in Nat, QrsFit(rest, issued), asked \in BOOLEAN,
         Render(status, image, rest, key)
  PROVE  /\ QrsFit(linkCalls', issued) /\ asked' \in BOOLEAN
         /\ shownPhone' \in Statuses /\ qrImage' \in 0 .. issued /\ actionKey' \in Keys
<1>1. CASE Wanted(status, image)
  <2> DEFINE c == NewLinkCall("autoQr", "connect")
  <2>1. c \in LinkCall /\ c.qr = 0 /\ 0 \in 0 .. issued
    BY NewCallIsFresh DEF Background
  <2>2. Len(rest) < MaxLinkCalls /\ linkCalls' = Append(rest, c)
        /\ asked' = TRUE /\ actionKey' = "autoQr"
    BY <1>1 DEF Render
  <2> HIDE DEF c
  <2>3. QrsFit(linkCalls', issued)
    BY <2>1, <2>2, OneMoreQr
  <2> QED  BY <2>2, <2>3 DEF Render, Keys
<1>2. CASE ~Wanted(status, image)
  BY <1>2 DEF Render
<1> QED  BY <1>1, <1>2

\* What the screen shows, and what ends on it.
LEMMA ShownFits ==
  ASSUME LinkMore, LinkFits, ShowPhone \/ \E k \in DOMAIN linkCalls : ShowQr(k) PROVE LinkFits'
<1>0. /\ linkCalls \in Seq(LinkCall) /\ issued \in Nat /\ QrsFit(linkCalls, issued)
      /\ ScreenKnows /\ MarksFit /\ MovesFit /\ "none" \in Keys
      /\ \A k \in DOMAIN linkCalls : linkCalls[k].qr \in 0 .. issued
  BY LinkKnown DEF LinkFits, Keys
<1>1. CASE ShowPhone
  <2>1. Render(phoneRead, qrImage, linkCalls, actionKey) /\ phoneRead' = "none"
        /\ UNCHANGED <<moves, issued, autoSynced, chatsSynced, failureTold, unlinks, linkFaults>>
    BY <1>1 DEF ShowPhone
  <2>2. /\ QrsFit(linkCalls', issued) /\ asked' \in BOOLEAN
        /\ shownPhone' \in Statuses /\ qrImage' \in 0 .. issued /\ actionKey' \in Keys
    BY <1>0, <2>1, RenderFits DEF ScreenKnows, MarksFit
  <2> QED  BY <1>0, <2>1, <2>2 DEF LinkFits, ScreenKnows, MarksFit, MovesFit, Statuses
<1>2. ASSUME NEW k \in DOMAIN linkCalls, ShowQr(k) PROVE LinkFits'
  <2> DEFINE rest == RemoveAt(linkCalls, k)
  <2>1. QrsFit(rest, issued) /\ rest \in Seq(LinkCall)
    BY <1>0, OneQrLess, RemoveOne
  <2>2. /\ \/ /\ linkCalls' = rest /\ asked' = FALSE /\ actionKey' = "none"
              /\ UNCHANGED <<shownPhone, qrImage>>
           \/ Render(shownPhone, linkCalls[k].qr, rest, "none")
        /\ UNCHANGED <<moves, issued, phoneRead, autoSynced, chatsSynced, failureTold, unlinks,
                       linkFaults>>
    BY <1>2 DEF ShowQr
  <2> HIDE DEF rest
  <2>3. /\ QrsFit(linkCalls', issued) /\ asked' \in BOOLEAN
        /\ shownPhone' \in Statuses /\ qrImage' \in 0 .. issued /\ actionKey' \in Keys
    <3>1. CASE Render(shownPhone, linkCalls[k].qr, rest, "none")
      BY <1>0, <2>1, <3>1, RenderFits DEF ScreenKnows, MarksFit
    <3>2. CASE linkCalls' = rest /\ asked' = FALSE /\ actionKey' = "none"
               /\ UNCHANGED <<shownPhone, qrImage>>
      BY <1>0, <2>1, <3>2 DEF ScreenKnows
    <3> QED  BY <2>2, <3>1, <3>2
  <2> QED  BY <1>0, <2>2, <2>3 DEF LinkFits, ScreenKnows, MarksFit, MovesFit
<1> QED  BY <1>1, <1>2

\* What starts requests.
LEMMA StartsFit ==
  ASSUME LinkMore, LinkFits, Tick \/ \E op \in Buttons : Press(op) PROVE LinkFits'
<1>0. /\ linkCalls \in Seq(LinkCall) /\ issued \in Nat /\ QrsFit(linkCalls, issued)
      /\ ScreenKnows /\ MarksFit /\ MovesFit /\ 0 \in 0 .. issued
  BY LinkKnown DEF LinkFits
<1>1. ASSUME NEW op \in Buttons \cup Background, NEW at \in {"create", "connect", "repair", "ask", "sync", "done"},
             Len(linkCalls) < MaxLinkCalls, linkCalls' = Append(linkCalls, NewLinkCall(op, at))
      PROVE  QrsFit(linkCalls', issued)
  BY <1>0, <1>1, NewCallIsFresh, OneMoreQr
<1>2. ASSUME NEW op \in Buttons, Press(op) PROVE LinkFits'
  <2>1. FirstStep(op) \in {"create", "connect", "repair", "ask", "sync", "done"}
    BY DEF FirstStep, Buttons
  <2>2. QrsFit(linkCalls', issued)
    BY <1>1, <1>2, <2>1 DEF Press, Stay
  <2>3. actionKey' \in Keys
        /\ UNCHANGED <<moves, issued, phoneRead, shownPhone, qrImage, asked, autoSynced, chatsSynced,
                       failureTold, unlinks, linkFaults>>
    BY <1>2 DEF Press, Stay, Keys
  <2> QED  BY <1>0, <2>2, <2>3 DEF LinkFits, ScreenKnows, MarksFit, MovesFit
<1>3. CASE Tick
  <2>1. PICK op \in {"poll", "autoSync"}, at \in {"ask", "sync"} :
          linkCalls' = Append(linkCalls, NewLinkCall(op, at))
    BY <1>3 DEF Tick, Stay
  <2>2. QrsFit(linkCalls', issued)
    BY <1>1, <1>3, <2>1 DEF Tick, Background
  <2>3. autoSynced' \in BOOLEAN
        /\ UNCHANGED <<moves, issued, phoneRead, shownPhone, qrImage, asked, actionKey, chatsSynced,
                       failureTold, unlinks, linkFaults>>
    BY <1>0, <1>3 DEF Tick, Stay, MarksFit
  <2> QED  BY <1>0, <2>2, <2>3 DEF LinkFits, ScreenKnows, MarksFit, MovesFit
<1> QED  BY <1>2, <1>3

\* What the API answers, or does not.
LEMMA ServedFits ==
  ASSUME LinkMore, LinkFits, NEW k \in DOMAIN linkCalls,
         \/ CreatePhone(k) \/ ConnectPhone(k) \/ RepairPhone(k) \/ PhoneStatus(k)
         \/ SyncGroups(k) \/ SyncRefused(k) \/ LinkCallFails(k)
  PROVE  LinkFits'
<1>0. /\ linkCalls \in Seq(LinkCall) /\ issued \in Nat /\ QrsFit(linkCalls, issued) /\ MaxQrs \in Nat
      /\ ScreenKnows /\ MarksFit /\ MovesFit /\ device \in Statuses
      /\ linkCalls[k] \in LinkCall /\ linkCalls[k].qr \in 0 .. issued
  BY LinkKnown DEF LinkFits, LinkMore
<1>1. ASSUME NEW c \in LinkCall, NEW n \in Nat, issued' = n, issued <= n, n <= MaxQrs, c.qr \in 0 .. n,
             linkCalls' = [linkCalls EXCEPT ![k] = c],
             UNCHANGED <<moves, phoneRead, shownPhone, qrImage, asked, autoSynced, actionKey>>,
             chatsSynced' \in BOOLEAN, failureTold' = failureTold, unlinks' \in BOOLEAN,
             linkFaults' \in 0 .. MaxLinkFaults
      PROVE  LinkFits'
  <2>1. QrsFit(linkCalls', n)
    BY <1>0, <1>1, OneQrChanges
  <2>2. qrImage' \in 0 .. n
    BY <1>0, <1>1 DEF ScreenKnows
  <2>3. ScreenKnows'
    BY <1>0, <1>1, <2>2 DEF ScreenKnows
  <2>4. MarksFit' /\ MovesFit'
    BY <1>0, <1>1 DEF MarksFit, MovesFit
  <2> QED  BY <1>1, <2>1, <2>3, <2>4 DEF LinkFits
<1>2. CASE CreatePhone(k) \/ ConnectPhone(k) \/ RepairPhone(k) \/ PhoneStatus(k) \/ SyncGroups(k)
  <2>1. /\ UNCHANGED <<moves, phoneRead, shownPhone, qrImage, asked, autoSynced, actionKey, failureTold,
                       linkFaults>>
        /\ chatsSynced' \in BOOLEAN
    BY <1>0, <1>2 DEF CreatePhone, ConnectPhone, RepairPhone, PhoneStatus, SyncGroups, MarksFit
  <2>2. unlinks' \in BOOLEAN
    BY <1>0, <1>2 DEF CreatePhone, ConnectPhone, RepairPhone, PhoneStatus, SyncGroups, MarksFit
  <2>3. issued' \in Nat /\ issued <= issued' /\ issued' <= MaxQrs
    BY <1>0, <1>2 DEF CreatePhone, ConnectPhone, RepairPhone, PhoneStatus, SyncGroups, ScreenKnows
  <2>4. PICK at \in {"connect", "repair", "done"}, q \in 0 .. issued', s \in Statuses : Answer(k, at, q, s)
    <3>1. 0 \in 0 .. issued' /\ issued \in 0 .. issued' /\ issued' \in 0 .. issued' /\ "none" \in Statuses
      BY <1>0, <2>3 DEF Statuses
    <3>2. CASE CreatePhone(k) \/ PhoneStatus(k) \/ SyncGroups(k)
      BY <1>0, <3>1, <3>2 DEF CreatePhone, PhoneStatus, SyncGroups
    <3>3. CASE ConnectPhone(k)
      BY <1>0, <3>1, <3>3 DEF ConnectPhone
    <3>4. CASE RepairPhone(k)
      BY <1>0, <3>1, <3>4 DEF RepairPhone
    <3> QED  BY <1>2, <3>2, <3>3, <3>4
  <2>5. PICK c : c = [linkCalls[k] EXCEPT !.at = at, !.qr = q, !.status = s]
    OBVIOUS
  <2>6. c \in LinkCall /\ c.qr = q /\ linkCalls' = [linkCalls EXCEPT ![k] = c]
    <3>1. c \in LinkCall /\ c.qr = q
      <4>1. q \in Nat
        BY <2>3, <2>4
      <4> QED  BY <1>0, <2>5, <4>1 DEF LinkCall
    <3>2. linkCalls' = [linkCalls EXCEPT ![k] = c]
      BY <1>0, <2>4, <2>5 DEF Answer
    <3> QED  BY <3>1, <3>2
  <2>7. linkFaults' \in 0 .. MaxLinkFaults
    BY <1>0, <2>1 DEF MovesFit
  <2> QED  BY <1>1, <2>1, <2>2, <2>3, <2>4, <2>6, <2>7
<1>3. CASE SyncRefused(k) \/ LinkCallFails(k)
  <2>1. PICK c : c = [linkCalls[k] EXCEPT !.ok = FALSE]
    OBVIOUS
  <2>2. c \in LinkCall /\ c.qr \in 0 .. issued /\ linkCalls' = [linkCalls EXCEPT ![k] = c]
    BY <1>0, <1>3, <2>1 DEF LinkCall, SyncRefused, LinkCallFails
  <2>3. UNCHANGED <<moves, issued, phoneRead, shownPhone, qrImage, asked, autoSynced, actionKey,
                    chatsSynced, failureTold, unlinks>>
    BY <1>3 DEF SyncRefused, LinkCallFails
  <2>4. linkFaults' \in 0 .. MaxLinkFaults
    BY <1>0, <1>3, LinkBounds DEF MovesFit, SyncRefused, LinkCallFails, LinkFault
  <2>5. issued <= issued /\ issued <= MaxQrs /\ chatsSynced' \in BOOLEAN /\ unlinks' \in BOOLEAN
    BY <1>0, <2>3 DEF ScreenKnows, MarksFit
  <2> QED  BY <1>0, <1>1, <2>2, <2>3, <2>4, <2>5
<1> QED  BY <1>2, <1>3

\* The end of a poll, of a sync, and of what failed.
LEMMA EndsFit ==
  ASSUME LinkMore, LinkFits, NEW k \in DOMAIN linkCalls, ShowStatus(k) \/ Synced(k) \/ TellFailure(k)
  PROVE  LinkFits'
<1>0. /\ linkCalls \in Seq(LinkCall) /\ issued \in Nat /\ QrsFit(linkCalls, issued)
      /\ ScreenKnows /\ MarksFit /\ MovesFit
      /\ linkCalls[k] \in LinkCall /\ linkCalls[k].qr \in 0 .. issued
  BY LinkKnown DEF LinkFits
<1>1. QrsFit(linkCalls', issued)
  <2>1. CASE linkCalls' = RemoveAt(linkCalls, k)
    BY <1>0, <2>1, OneQrLess
  <2>2. CASE linkCalls' # RemoveAt(linkCalls, k)
    <3> DEFINE c == [linkCalls[k] EXCEPT !.at = "sync", !.op = IF @ = "poll" THEN "autoSync" ELSE @,
                                         !.status = "none"]
    <3>1. linkCalls' = [linkCalls EXCEPT ![k] = c]
      BY <2>2 DEF ShowStatus, Synced, TellFailure, Stay
    <3>2. c \in LinkCall /\ c.qr = linkCalls[k].qr
      BY <1>0 DEF LinkCall, Buttons, Background, Statuses
    <3> HIDE DEF c
    <3>3. issued <= issued
      BY <1>0
    <3> QED  BY <1>0, <3>1, <3>2, <3>3, OneQrChanges
  <2> QED  BY <2>1, <2>2
<1>2. actionKey' \in Keys
  BY <1>0 DEF ShowStatus, Synced, TellFailure, Enabled, ScreenKnows, Keys
<1>3. autoSynced' \in BOOLEAN /\ asked' \in BOOLEAN /\ failureTold' \in BOOLEAN
  BY <1>0 DEF ShowStatus, Synced, TellFailure, Stay, MarksFit
<1>4. UNCHANGED <<moves, issued, phoneRead, shownPhone, qrImage, chatsSynced, unlinks, linkFaults>>
  BY DEF ShowStatus, Synced, TellFailure, Stay
<1> QED  BY <1>0, <1>1, <1>2, <1>3, <1>4 DEF LinkFits, ScreenKnows, MarksFit, MovesFit

LEMMA LinkFitsStart == LinkInit => LinkFits
<1> SUFFICES ASSUME LinkInit PROVE LinkFits
  OBVIOUS
<1>1. QrsFit(linkCalls, issued)
  BY LinkBounds DEF LinkInit, QrsFit
<1>2. ScreenKnows /\ MovesFit
  BY LinkBounds DEF LinkInit, ScreenKnows, MovesFit, Statuses, Keys
<1>3. MarksFit
  BY Zenon DEF LinkInit, MarksFit
<1> QED  BY <1>1, <1>2, <1>3 DEF LinkFits

LEMMA LinkFitsStep == LinkMore /\ LinkFits /\ [LinkNext]_linkVars => LinkFits'
<1> SUFFICES ASSUME LinkMore, LinkFits, [LinkNext]_linkVars PROVE LinkFits'
  OBVIOUS
<1>1. CASE ReadPhone \/ PhoneMoves
  <2>1. UNCHANGED <<issued, shownPhone, qrImage, asked, autoSynced, linkCalls, actionKey,
                    chatsSynced, failureTold, unlinks, linkFaults>>
    BY <1>1 DEF ReadPhone, PhoneMoves
  <2>2. phoneRead' \in Statuses
    BY <1>1 DEF ReadPhone, PhoneMoves, LinkMore, LinkFits, ScreenKnows
  <2>3. moves' \in 0 .. MaxPhoneMoves
    <3>1. moves' = moves \/ (moves' = moves + 1 /\ moves < MaxPhoneMoves)
      BY <1>1 DEF ReadPhone, PhoneMoves
    <3> QED  BY <3>1, LinkBounds DEF LinkFits, MovesFit
  <2> QED  BY <2>1, <2>2, <2>3 DEF LinkFits, ScreenKnows, MarksFit, MovesFit, QrsFit
<1>2. CASE UNCHANGED linkVars
  BY <1>2 DEF linkVars, LinkFits, ScreenKnows, MarksFit, MovesFit, QrsFit
<1> QED  BY <1>1, <1>2, ShownFits, StartsFit, ServedFits, EndsFit DEF LinkNext

LEMMA LinkTyped == LinkMore /\ LinkFits => LinkTypeOK
<1> SUFFICES ASSUME LinkMore, LinkFits PROVE LinkTypeOK
  OBVIOUS
<1>1. {asked, autoSynced, chatsSynced, failureTold, unlinks} \subseteq BOOLEAN
  BY Zenon DEF LinkFits, MarksFit
<1>2. {device, phoneRead, shownPhone} \subseteq Statuses
  BY DEF LinkMore, LinkFits, ScreenKnows
<1> QED  BY <1>1, <1>2, LinkKnown DEF LinkFits, ScreenKnows, MovesFit, QrsFit, Keys, LinkTypeOK

-----------------------------------------------------------------------------
(* The components by themselves, in every instance and with nothing in focus. *)

\* The pane of one agent (hooks.ts:32-46): loads under their own chat.
THEOREM PaneHolds == WebSpec => []LoadsStayInTheirChat
<1>1. PaneMore => LoadsStayInTheirChat
  BY DEF PaneMore
<1> QED  BY <1>1, WebInitHolds, WebStep, PTL DEF WebSpec

\* The tab's notification centre holds the last events heard, whatever is heard again, marked
\* or cleared (realtime.ts:83-93).
THEOREM AlertsAreLast == InboxSpec => []AlertsAreLatest
<1>1. AlertsMore => AlertsAreLatest
  BY FollowingIsLatest DEF AlertsMore
<1>2. [ListNext \/ AlertNext]_inboxVars => [InboxMoves]_inboxVars
  BY DEF InboxMoves
<1> QED  BY <1>1, <1>2, AlertsStart, AlertStep, PTL DEF InboxSpec

\* A browser whose agents and tabs do as they like (push.service.ts:29-50).
THEOREM BrowserHolds == BrowserSpec => []PushesFollowTheBrowser
<1>1. BrowserInv => PushesFollowTheBrowser
  BY DEF BrowserInv, PushesOK
<1> QED  BY <1>1, BrowserInitHolds, BrowserStep, PTL DEF BrowserSpec

\* The screen that links a phone, with any of its requests at once (PhonesView.tsx:142-236).
THEOREM LinksAreAsked == LinkSpec => []LinkScreenInv
  BY LinkInitHolds, LinkStep, LinkMoreImplies, PTL DEF LinkSpec

\* What is done with the messages of a chat (Timeline.tsx, tickets.service.ts).
THEOREM TicketsHold == ActionsSpec => []ActionsInv
<1>1. ActionsMore => ActionsInv
  BY DEF ActionsMore
<1> QED  BY <1>1, ActionsInitHolds, ActionsStep, PTL DEF ActionsSpec

\* The boxes that look up what is typed (CannedResponsePicker.tsx, SearchView.tsx).
THEOREM BoxesHold == LookupsSpec => []LookupsInv
<1>1. LookupsMore => LookupsInv
  BY DEF LookupsMore
<1> QED  BY <1>1, LookupsInitHolds, LookupsStep, PTL DEF LookupsSpec

-----------------------------------------------------------------------------
(* All of them, of which a step of the client moves one. *)

LEMMA ComposerMoves == ComposerNext => [InboxMoves]_inboxVars
  BY DEF ComposerNext, Created, InboxMoves, ChatMade

LEMMA WebSteps ==
  ASSUME [WebClientNext]_browserTabVars
  PROVE  /\ [WebNext]_webVars /\ [ComposerNext]_composerVars /\ [BrowserNext]_browserVars
         /\ [LinkNext]_linkVars /\ [ActionsNext]_actionVars /\ [LookupsNext]_lookupVars
         /\ [InboxMoves]_inboxVars
<1>1. CASE PaneFocus
  BY <1>1 DEF PaneFocus, OnlyPane
<1>2. CASE ListFocus \/ MarksFocus \/ NewsFocus \/ AlertsFocus
  BY <1>2 DEF ListFocus, MarksFocus, NewsFocus, AlertsFocus, OnlyInbox, InboxMoves
<1>3. CASE WritingFocus
  BY <1>3, ComposerMoves DEF WritingFocus, OnlyWriting, ChatSwitches, InboxMoves
<1>4. CASE BrowserFocus
  BY <1>4 DEF BrowserFocus, OnlyBrowser
<1>5. CASE LinkFocus \/ SyncFocus
  BY <1>5 DEF LinkFocus, SyncFocus, OnlyLink
<1>6. CASE ActionsFocus
  BY <1>6 DEF ActionsFocus, OnlyActions
<1>7. CASE LookupsFocus
  BY <1>7 DEF LookupsFocus, OnlyLookups
<1>8. CASE UNCHANGED browserTabVars
  BY <1>8 DEF browserTabVars
<1> QED  BY <1>1, <1>2, <1>3, <1>4, <1>5, <1>6, <1>7, <1>8 DEF WebClientNext

\* A browser's pushes are of nobody but the agent who was subscribed in it last, however
\* many share it, and whatever is answered late or lost (push.service.ts:29-50).
THEOREM PushesReachTheLast == WebClientSpec => []PushesFollowTheBrowser
<1>1. WebClientInit => BrowserInv
  BY BrowserInitHolds DEF WebClientInit
<1>2. BrowserInv /\ [WebClientNext]_browserTabVars => BrowserInv'
  BY WebSteps, BrowserStep
<1>3. BrowserInv => PushesFollowTheBrowser
  BY DEF BrowserInv, PushesOK
<1> QED  BY <1>1, <1>2, <1>3, PTL DEF WebClientSpec

\* A ticket is of the channel of its message, and a preview is "loading" only while somebody
\* listens to its request, whenever the chat changes (Timeline.tsx, tickets.service.ts).
THEOREM ActionsHold == WebClientSpec => []ActionsInv
<1>1. WebClientInit => ActionsMore
  BY ActionsInitHolds DEF WebClientInit
<1>2. ActionsMore /\ [WebClientNext]_browserTabVars => ActionsMore'
  BY WebSteps, ActionsStep
<1>3. ActionsMore => ActionsInv
  BY DEF ActionsMore
<1> QED  BY <1>1, <1>2, <1>3, PTL DEF WebClientSpec

\* Lists are those of the words they are shown under, and loading ends, in all the boxes
\* (CannedResponsePicker.tsx, NewChatDialog.tsx, SearchView.tsx).
THEOREM LookupsHold == WebClientSpec => []LookupsInv
<1>1. WebClientInit => LookupsMore
  BY LookupsInitHolds DEF WebClientInit
<1>2. LookupsMore /\ [WebClientNext]_browserTabVars => LookupsMore'
  BY WebSteps, LookupsStep
<1>3. LookupsMore => LookupsInv
  BY DEF LookupsMore
<1> QED  BY <1>1, <1>2, <1>3, PTL DEF WebClientSpec

\* What a load brought is shown under its own chat, however late it comes (hooks.ts:32-46).
THEOREM LoadsAreOfTheirChat == WebClientSpec => []LoadsStayInTheirChat
<1>1. WebClientInit => PaneMore
  BY WebInitHolds DEF WebClientInit
<1>2. PaneMore /\ [WebClientNext]_browserTabVars => PaneMore'
  BY WebSteps, WebStep
<1>3. PaneMore => LoadsStayInTheirChat
  BY DEF PaneMore
<1> QED  BY <1>1, <1>2, <1>3, PTL DEF WebClientSpec

\* What comes late or twice gets in the way of nothing newer, in the pane and among the
\* notifications (hooks.ts:32-46, realtime.ts:83-93).
THEOREM NoNewsGetsStale == WebClientSpec => []NoStaleNews
<1>1. WebClientInit => AlertsMore
  BY AlertsStart DEF WebClientInit
<1>2. AlertsMore /\ [WebClientNext]_browserTabVars => AlertsMore'
  BY WebSteps, AlertStep
<1>3. AlertsMore => AlertsAreLatest
  BY FollowingIsLatest DEF AlertsMore
<1> QED  BY <1>1, <1>2, <1>3, LoadsAreOfTheirChat, PTL DEF WebClientSpec, NoStaleNews

\* The screen that links a phone has one request of its own for a QR in flight, and its
\* mark of a sync stands for one that was tried (PhonesView.tsx:142-174, 188-236).
THEOREM LinkScreenHolds == WebClientSpec => []LinkScreenInv
<1>1. WebClientInit => LinkMore
  BY LinkInitHolds DEF WebClientInit
<1>2. LinkMore /\ [WebClientNext]_browserTabVars => LinkMore'
  BY WebSteps, LinkStep
<1> QED  BY <1>1, <1>2, LinkMoreImplies, PTL DEF WebClientSpec

\* The invariant of what an agent writes, from which the two theorems below follow.
LEMMA ComposerHolds == WebClientSpec => []ComposerMore
<1>1. WebClientInit => ComposerMore
  BY ComposerInitHolds DEF WebClientInit
<1>2. ComposerMore /\ [WebClientNext]_browserTabVars => ComposerMore'
  BY WebSteps, ComposerStepKept
<1> QED  BY <1>1, <1>2, PTL DEF WebClientSpec

\* A text is taken by the API once, and once more for every error the agent saw for it
\* (Composer.tsx:57-62, 84-108; NewChatDialog.tsx:75-99).
THEOREM TextsArePostedOnce == WebClientSpec => []RepeatsFollowErrors
  BY ComposerHolds, ComposerMoreImplies, PTL

\* A private note goes to WhatsApp only if the agent took it along into the reply tab
\* (Composer.tsx:70-75, 110-116).
THEOREM NotesAreNotSent == WebClientSpec => NotesStayInside
<1>1. ASSUME ComposerMore
      PROVE  Served /\ submission.as = "reply" /\ submission.text # 0 =>
               LET t == texts[submission.text] IN t.as = "reply" \/ t.taken
  BY <1>1 DEF ComposerMore, NotesOK, Repliable
<1>2. ComposerMore =>
        [Served /\ submission.as = "reply" /\ submission.text # 0 =>
           LET t == texts[submission.text] IN t.as = "reply" \/ t.taken]_composerVars
  BY <1>1
<1> QED  BY <1>2, ComposerHolds, PTL DEF NotesStayInside

LEMMA BrowserTyped == BrowserInv => BrowserTypeOK
<1> SUFFICES ASSUME BrowserInv PROVE BrowserTypeOK
  OBVIOUS
<1>1. callsOut \subseteq Call
  BY DEF BrowserInv, CallsCarry, Carries
<1> QED  BY <1>1 DEF BrowserInv, TokensOK, PushesOK, BrowserTypeOK

\* What the components of the client keep, side by side.
ClientInv ==
  /\ PaneMore /\ PaneFits /\ ListMore /\ AlertsMore
  /\ ComposerMore /\ ComposerFits /\ BrowserInv
  /\ LinkMore /\ LinkFits /\ ActionsMore /\ OpenFits /\ LookupsMore /\ LookupsKnow

\* Every variable of the client keeps its type, whatever is answered late, lost or heard twice:
\* what is on screen, in flight and stored is always something the code has a case for.
THEOREM ClientTypeCorrect == WebClientSpec => []WebClientTypeOK
<1>1. WebClientInit => ClientInv
  <2> SUFFICES ASSUME WebClientInit PROVE ClientInv
    OBVIOUS
  <2>1. PaneMore /\ PaneFits /\ ListMore /\ AlertsMore /\ ComposerMore /\ ComposerFits /\ BrowserInv
    BY WebInitHolds, PaneStarts, ListStart, AlertsStart, ComposerInitHolds, WritingStarts,
       BrowserInitHolds DEF WebClientInit
  <2>2. LinkMore /\ LinkFits /\ ActionsMore /\ OpenFits /\ LookupsMore /\ LookupsKnow
    BY LinkInitHolds, LinkFitsStart, ActionsInitHolds, OpenStarts, LookupsInitHolds, KnowingStarts
       DEF WebClientInit
  <2> QED  BY <2>1, <2>2 DEF ClientInv
<1>2. ClientInv /\ [WebClientNext]_browserTabVars => ClientInv'
  <2> SUFFICES ASSUME ClientInv, [WebClientNext]_browserTabVars PROVE ClientInv'
    OBVIOUS
  <2>1. PaneMore' /\ PaneFits' /\ BrowserInv'
    BY WebSteps, WebStep, PaneGoesOn, BrowserStep DEF ClientInv
  <2>2. ListMore' /\ AlertsMore' /\ ComposerMore' /\ ComposerFits'
    BY WebSteps, ListStep, AlertStep, ComposerStepKept, WritingGoesOn DEF ClientInv
  <2>3. LinkMore' /\ LinkFits'
    BY WebSteps, LinkStep, LinkFitsStep DEF ClientInv
  <2>4. ActionsMore' /\ OpenFits' /\ LookupsMore' /\ LookupsKnow'
    BY WebSteps, ActionsStep, OpenGoesOn, LookupsStep, KnowingGoesOn DEF ClientInv
  <2> QED  BY <2>1, <2>2, <2>3, <2>4 DEF ClientInv
<1>3. ClientInv => WebClientTypeOK
  <2> SUFFICES ASSUME ClientInv PROVE WebClientTypeOK
    OBVIOUS
  <2>1. WebTypeOK /\ InboxTypeOK /\ ComposerTypeOK /\ BrowserTypeOK
    BY PaneTyped, InboxTyped, ComposerTyped, BrowserTyped DEF ClientInv
  <2>2. LinkTypeOK /\ ActionsTypeOK /\ LookupsTypeOK
    BY LinkTyped, ActionsTyped, LookupsTyped DEF ClientInv
  <2> QED  BY <2>1, <2>2 DEF WebClientTypeOK
<1> QED  BY <1>1, <1>2, <1>3, PTL DEF WebClientSpec
=============================================================================
