------------------------------ MODULE Lookups ------------------------------
(***************************************************************************)
(* What an agent looks up while typing: contacts in the dialog of a new    *)
(* chat (components/NewChatDialog.tsx, contacts.service.ts), quick replies *)
(* in the composer (components/CannedResponsePicker.tsx) and messages on   *)
(* the search page (views/SearchView.tsx, search.service.ts).  The first   *)
(* two ask by themselves when the typing pauses, the page when told to.    *)
(* What a word matches is one thing per channel that has it.               *)
(***************************************************************************)
EXTENDS Naturals, FiniteSets

LOCAL INSTANCE FiniteSetsExt

CONSTANTS
  Words,       \* what can be typed
  NoWord,      \* nothing is
  Things,      \* contacts, quick replies, messages or tickets
  SearchLimit, \* NEW_CHAT_SEARCH_LIMIT
  MaxReach,    \* bound on the agent's channels that have a thing
  MaxTries     \* bound on words typed, renders, and changes of access

ASSUME LookupAssumption ==
  /\ NoWord \notin Words
  /\ {SearchLimit, MaxReach} \subseteq Nat \ {0} /\ MaxTries \in Nat

VARIABLES
  box,       \* where something is looked up
  typed,     \* query, contactQuery
  debounce,  \* is the timer of the effect set?
  lookups,   \* requests in flight
  found,     \* the list that was answered, and for what
  loading,
  failed,    \* an error is shown
  submitted, \* what the search page was told to look up
  reach,     \* in how many of the channels the agent may access is a thing?
  tries     \* words typed, renders, changes of access

lookupVars == <<box, typed, debounce, lookups, found, loading, failed, submitted, reach, tries>>

Boxes == {"contacts", "replies", "search"}
Texts == Words \cup {NoWord}

\* live: of an effect that was not cleaned up.
Lookup == [n : 0 .. MaxTries, word : Texts, live : BOOLEAN, read : BOOLEAN,
           things : SUBSET Things]
NothingFound == [word |-> NoWord, things |-> {}]

Try == tries < MaxTries /\ tries' = tries + 1

NewLookup(word) == [n |-> tries, word |-> word, live |-> TRUE, read |-> FALSE, things |-> {}]

-----------------------------------------------------------------------------
(* Typing. *)

Cancelled == {[l EXCEPT !.live = FALSE] : l \in lookups}

\* The effect of a box that asks by itself, after the cleanup of the one before.  Contacts are
\* not looked up for nothing.
LookUp(word) ==
  /\ lookups' = Cancelled
  /\ IF box = "contacts"
       THEN /\ debounce' = (word # NoWord)
            /\ found' = IF word = NoWord THEN NothingFound ELSE found
            /\ UNCHANGED loading
       ELSE debounce' = TRUE /\ loading' = TRUE /\ UNCHANGED found

Type ==
  /\ Try
  /\ \E word \in Texts \ {typed} :
       /\ typed' = word
       /\ IF box = "search" THEN UNCHANGED <<lookups, debounce, found, loading>> ELSE LookUp(word)
  /\ UNCHANGED <<box, failed, submitted, reach>>

\* The Workbench renders: onSearchContacts is another function then, which the effect of the
\* dialog depends on.
Rerender ==
  /\ box = "contacts" /\ Try
  /\ LookUp(typed)
  /\ UNCHANGED <<box, typed, failed, submitted, reach>>

\* pickContact empties the input.
pickContact ==
  /\ box = "contacts" /\ found.things # {}
  /\ typed' = NoWord
  /\ LookUp(NoWord)
  /\ UNCHANGED <<box, failed, submitted, reach, tries>>

DebounceFires ==
  /\ debounce
  /\ debounce' = FALSE
  /\ lookups' = lookups \cup {NewLookup(typed)}
  /\ UNCHANGED <<box, typed, found, loading, failed, submitted, reach, tries>>

\* The button, and with it the form, is disabled.
Submittable == ~loading

submitSearch ==
  /\ box = "search" /\ typed # NoWord /\ Submittable
  /\ submitted' = typed
  /\ lookups' = lookups \cup {NewLookup(typed)}
  /\ failed' = FALSE /\ loading' = TRUE
  /\ UNCHANGED <<box, typed, debounce, found, reach, tries>>

-----------------------------------------------------------------------------
(* The API. *)

\* A member of a channel comes or goes, or the agent's access to it does.
ReachChanges ==
  /\ Try
  /\ \E t \in Things, k \in 0 .. MaxReach : reach' = [reach EXCEPT ![t] = k]
  /\ UNCHANGED <<box, typed, debounce, lookups, found, loading, failed, submitted>>

\* Of the rows, one for a contact and a channel, four times as many are read as contacts are
\* answered, in no order.  n: how many of each contact.
Hits == {t \in Things : reach[t] > 0}
RowsRead(n) == MapThenSumSet(LAMBDA t : n[t], Hits)
PagesRead ==
  {n \in [Hits -> 0 .. MaxReach] : /\ \A t \in Hits : n[t] <= reach[t]
                                  /\ RowsRead(n) = Min({4 * SearchLimit, RowsRead(reach)})}
Contacts(n) == {t \in Hits : n[t] > 0}
searchForNewChat ==
  UNION {kSubset(Min({SearchLimit, Cardinality(Contacts(n))}), Contacts(n)) : n \in PagesRead}

\* CannedResponsesService.list has no access to look at, which is all the same here.
search == {Hits}

ReadThings(l) ==
  /\ ~l.read
  /\ \E S \in IF box = "contacts" THEN searchForNewChat ELSE search :
       lookups' = (lookups \ {l}) \cup {[l EXCEPT !.read = TRUE, !.things = S]}
  /\ UNCHANGED <<box, typed, debounce, found, loading, failed, submitted, reach, tries>>

MutLateLookups(l) == TRUE
\* Only the effects look at the flag of the cleanup.
Heard(l) == l.live

LookupAnswer(l) ==
  /\ l.read
  /\ lookups' = lookups \ {l}
  /\ IF Heard(l) THEN found' = [word |-> l.word, things |-> l.things] /\ loading' = FALSE
                  ELSE UNCHANGED <<found, loading>>
  /\ UNCHANGED <<box, typed, debounce, failed, submitted, reach, tries>>

\* finally.
LoadingAfter(l) == loading /\ ~l.live

\* Quick replies and the page show the error, over the list; the dialog shows no contact.
LookupFails(l) ==
  /\ lookups' = lookups \ {l}
  /\ IF l.live /\ box = "contacts" THEN found' = NothingFound ELSE UNCHANGED found
  /\ failed' = (failed \/ (l.live /\ box # "contacts"))
  /\ loading' = LoadingAfter(l)
  /\ UNCHANGED <<box, typed, debounce, submitted, reach, tries>>

-----------------------------------------------------------------------------
\* The picker of quick replies asks when it opens.
LookupsInit ==
  /\ box \in Boxes
  /\ typed = NoWord /\ submitted = NoWord /\ found = NothingFound
  /\ debounce = (box = "replies") /\ loading = (box = "replies") /\ failed = FALSE
  /\ lookups = {} /\ tries = 0
  /\ reach \in [Things -> {0, 1}]

LookupsNext ==
  \/ Type \/ Rerender \/ pickContact \/ DebounceFires \/ submitSearch \/ ReachChanges
  \/ \E l \in lookups : ReadThings(l) \/ LookupAnswer(l) \/ LookupFails(l)

LookupsSpec == LookupsInit /\ [][LookupsNext]_lookupVars

-----------------------------------------------------------------------------
LookupsTypeOK ==
  /\ box \in Boxes /\ typed \in Texts /\ submitted \in Texts
  /\ {debounce, loading, failed} \subseteq BOOLEAN
  /\ lookups \subseteq Lookup /\ found.word \in Texts /\ found.things \subseteq Things
  /\ reach \in [Things -> 0 .. MaxReach] /\ tries \in 0 .. MaxTries

Waiting == debounce \/ \E l \in lookups : l.live

\* A list on screen is that of the words it is shown under, whatever order the answers come
\* in: of what is typed, unless it is still being looked up, or of what was submitted.
ListsAreOfTheirWords ==
  CASE box = "contacts" -> Waiting \/ found.things = {} \/ found.word = typed
    [] box = "replies"  -> loading \/ failed \/ found.word = typed
    [] box = "search"   -> loading \/ failed \/ found.word = submitted

\* "Loading..." is shown only while something is being looked up.
LoadingEnds == loading => Waiting

\* A lookup ends, with its own answer: both of the above.
LookupsInv == ListsAreOfTheirWords /\ LoadingEnds

\* A picker that was answered shows the answer.  The error of an earlier lookup is not
\* cleared, and covers it.
ErrorsPass == [][\A l \in lookups : LookupAnswer(l) /\ l.live => ~failed']_lookupVars

\* The contacts answered are all that match, when they are few enough to be shown.
\* Members of many channels use up the rows.
NobodyIsMissed ==
  LET hits == {t \in Things : reach[t] > 0} IN
  Cardinality(hits) <= SearchLimit => searchForNewChat = {hits}
=============================================================================
