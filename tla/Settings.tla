------------------------------ MODULE Settings ------------------------------
(***************************************************************************)
(* What a workspace sets up: a table of labelled rows, which is that of AI *)
(* connections (apps/api/src/ai/ai-connections.service.ts) or of quick     *)
(* replies (canned-responses.service.ts), edited by several people at      *)
(* once; the reply that is drafted with a connection from the last         *)
(* messages of a chat (ai-draft-reply.service.ts); and workspaces with     *)
(* their users, who register or are invited (auth.service.ts,              *)
(* team.service.ts).                                                       *)
(***************************************************************************)
EXTENDS Naturals, Sequences, FiniteSets, Ordered

LOCAL INSTANCE SequencesExt

CONSTANTS
  Editors,
  NoEdit,
  Labels,        \* labels of connections, titles of quick replies
  Contents,      \* API keys, bodies of quick replies
  MaxEdits,      \* bound on the writes to the table
  Emails, Slugs,
  HistoryLimit,  \* HISTORY_LIMIT
  MaxTranscript  \* bound on the messages of the chat

ASSUME SettingsAssumption ==
  /\ {MaxEdits, MaxTranscript} \subseteq Nat
  /\ HistoryLimit \in Nat \ {0}

VARIABLES
  table,     \* "ai" or "canned"
  items,     \* its rows
  edits,     \* writes so far: updatedAt
  given,     \* for each row, what the writes that were acknowledged gave it last
  editing,   \* the requests in flight
  transcript,  \* the chat's messages, the oldest first
  draft,     \* the request for a draft
  accounts,  \* users: the email of the nth
  workspaces,\* the slug of the nth
  members,   \* workspace_users
  joining    \* registrations and invitations in flight

itemVars == <<table, items, edits, given, editing>>
draftVars == <<transcript, draft>>
peopleVars == <<accounts, workspaces, members, joining>>
settingsVars == <<itemVars, draftVars, peopleVars>>

Item == [label : Labels, content : Contents, active : BOOLEAN, at : 0 .. MaxEdits,
         healthOf : Contents, healthy : BOOLEAN]

\* label, content, status: what an update gives, "" for what it leaves.
Edit == [op : {"create", "update", "test"}, item : 0 .. MaxEdits,
         label : Labels \cup {""}, content : Contents \cup {""}, status : {"active", "disabled", ""},
         step : {"check", "ping", "write"}, read : Item, healthy : BOOLEAN]

Given(row, e) == [label   |-> IF e.label = "" THEN row.label ELSE e.label,
                  content |-> IF e.content = "" THEN row.content ELSE e.content,
                  active  |-> IF e.status = "" THEN row.active ELSE e.status = "active"]

\* Another row has the label: what the services select, and the unique index refuses.
Clash(label, i) == \E j \in DOMAIN items \ {i} : items[j].label = label

FreshRow == [label |-> CHOOSE l \in Labels : TRUE, content |-> CHOOSE c \in Contents : TRUE,
          active |-> TRUE, at |-> 0, healthOf |-> CHOOSE c \in Contents : TRUE, healthy |-> FALSE]

-----------------------------------------------------------------------------
(* AI connections and quick replies. *)

Starts(c, e) == editing[c] = NoEdit /\ editing' = [editing EXCEPT ![c] = e]
Proceeds(c, step) == editing' = [editing EXCEPT ![c].step = step]
Ends(c) == editing' = [editing EXCEPT ![c] = NoEdit]
NewItem == edits + 1
EditStep == edits < MaxEdits /\ edits' = edits + 1

\* create selects the label; of a connection the provider is asked whether its key works.
StartCreate(c, label, content) ==
  /\ ~Clash(label, 0)
  /\ Starts(c, [op |-> "create", item |-> 0, label |-> label, content |-> content,
                status |-> "active", step |-> IF table = "ai" THEN "ping" ELSE "write",
                read |-> FreshRow, healthy |-> FALSE])
  /\ UNCHANGED <<table, items, edits, given>>

\* update of a connection loads its row first; the label is checked if it is another one.
StartUpdate(c, i, label, content, status) ==
  /\ {label, content, status} # {""}
  /\ table = "canned" => status = ""
  /\ Starts(c, [op |-> "update", item |-> i, label |-> label, content |-> content,
                status |-> status, step |-> "check",
                read |-> IF table = "ai" THEN items[i] ELSE FreshRow, healthy |-> FALSE])
  /\ UNCHANGED <<table, items, edits, given>>

CheckLabel(c) ==
  LET e == editing[c] IN
  /\ e.step = "check"
  /\ IF e.label # "" /\ Clash(e.label, e.item) THEN Ends(c) ELSE Proceeds(c, "write")
  /\ UNCHANGED <<table, items, edits, given>>

\* testConnection loads the row, and decrypts its key.
StartTest(c, i) ==
  /\ table = "ai"
  /\ Starts(c, [op |-> "test", item |-> i, label |-> "", content |-> "", status |-> "",
                step |-> "ping", read |-> items[i], healthy |-> FALSE])
  /\ UNCHANGED <<table, items, edits, given>>

\* checkAiProviderHealth: an answer, or eight seconds without.
Ping(c) ==
  /\ editing[c].step = "ping"
  /\ \E ok \in BOOLEAN :
       editing' = [editing EXCEPT ![c].healthy = ok, ![c].step = "write"]
  /\ UNCHANGED <<table, items, edits, given>>

MutWriteRow(row, e) == Given(e.read, e)
\* The columns that an update sets.
Written(row, e) == Given(row, e)

\* The statement that ends a request; one that breaks the index fails.
WriteItem(c) ==
  LET e == editing[c]
      i == IF e.op = "create" THEN NewItem ELSE e.item
      row == IF e.op = "create" THEN FreshRow ELSE items[i]
  IN
  /\ e.step = "write"
  /\ Ends(c)
  /\ IF (e.op # "create" /\ i \notin DOMAIN items) \/ (e.label # "" /\ Clash(e.label, i))
     THEN UNCHANGED <<items, edits, given>>
     ELSE /\ EditStep
          /\ items' = [j \in DOMAIN items \cup {i} |->
               IF j # i THEN items[j]
               ELSE LET w == IF e.op = "test" THEN row ELSE Written(row, e) IN
                    [label |-> w.label, content |-> w.content, active |-> w.active,
                     at |-> edits',
                     healthOf |-> CASE e.op = "create" -> e.content
                                    [] e.op = "test" -> e.read.content
                                    [] OTHER -> row.healthOf,
                     healthy |-> IF e.op = "update" THEN row.healthy ELSE e.healthy]]
          /\ given' = [j \in DOMAIN given \cup {i} |->
               IF j # i THEN given[j] ELSE Given(IF i \in DOMAIN given THEN given[i] ELSE FreshRow, e)]
  /\ UNCHANGED table

RemoveItem(i) ==
  /\ EditStep
  /\ items' = [j \in DOMAIN items \ {i} |-> items[j]]
  /\ given' = [j \in DOMAIN given \ {i} |-> given[j]]
  /\ UNCHANGED <<table, editing>>

ItemsNext ==
  /\ \/ \E c \in Editors :
          \/ \E l \in Labels, k \in Contents : StartCreate(c, l, k)
          \/ \E i \in DOMAIN items, l \in Labels \cup {""}, k \in Contents \cup {""},
                s \in {"active", "disabled", ""} : StartUpdate(c, i, l, k, s)
          \/ \E i \in DOMAIN items : StartTest(c, i)
          \/ editing[c] # NoEdit /\ (CheckLabel(c) \/ Ping(c) \/ WriteItem(c))
     \/ \E i \in DOMAIN items : RemoveItem(i)
  /\ UNCHANGED <<draftVars, peopleVars>>

-----------------------------------------------------------------------------
(* Drafting a reply. *)

Roles == {"user", "assistant"}
Transcripts == UNION {[1 .. n -> [role : Roles, blank : BOOLEAN]] : n \in 0 .. MaxTranscript}

\* The active connection that was written last, be it by a test of it.
ActiveConnections == {i \in DOMAIN items : items[i].active}
Connection == CHOOSE i \in ActiveConnections :
                \A j \in ActiveConnections : items[j].at <= items[i].at

\* The last messages, without those that have no text, by their numbers.
recentMessages ==
  Ascending({n \in DOMAIN transcript : /\ n + HistoryLimit > Len(transcript)
                                       /\ ~transcript[n].blank})

\* Those of one side that follow each other make a turn.
Merged(ms) ==
  LET starts == {k \in DOMAIN ms : k = 1 \/ transcript[ms[k]].role # transcript[ms[k - 1]].role}
      start == Append(Ascending(starts), Len(ms) + 1)
  IN  [t \in 1 .. Cardinality(starts) |->
         [role |-> transcript[ms[start[t]]].role,
          content |-> SubSeq(ms, start[t], start[t + 1] - 1)]]

\* Turns that alternate, and start with the client's.
normalizeForCompletion(ms) ==
  LET client == {k \in DOMAIN ms : transcript[ms[k]].role = "user"} IN
  IF client = {} THEN <<>>
  ELSE Merged(SubSeq(ms, CHOOSE k \in client : \A j \in client : k <= j, Len(ms)))

DraftReply ==
  /\ draft.at = "none"
  /\ LET turns == normalizeForCompletion(recentMessages) IN
     draft' = IF ActiveConnections = {} \/ turns = <<>>
              THEN [draft EXCEPT !.at = "refused"]
              ELSE [at |-> "asking", key |-> items[Connection].content, turns |-> turns]
  /\ UNCHANGED <<itemVars, transcript, peopleVars>>

\* generateCompletion: a text, or an error within twenty seconds.
Completion ==
  /\ draft.at = "asking"
  /\ \E at \in {"drafted", "refused"} : draft' = [draft EXCEPT !.at = at]
  /\ UNCHANGED <<itemVars, transcript, peopleVars>>

-----------------------------------------------------------------------------
(* Workspaces and users. *)

HasAccount(email) == \E u \in DOMAIN accounts : accounts[u] = email

\* registerWorkspace and createUser look for the email, and hash the password.
StartJoin(c, email, slug, w) ==
  /\ joining[c] = NoEdit
  /\ ~HasAccount(email)
  /\ joining' = [joining EXCEPT ![c] = [email |-> email, slug |-> slug, workspace |-> w]]
  /\ UNCHANGED <<itemVars, draftVars, accounts, workspaces, members>>

\* The transaction leaves a workspace only if the rest of it can follow.
LeavesWorkspace(j) ==
  j.workspace = 0 /\ j.slug \notin Range(workspaces) /\ ~HasAccount(j.email)

\* One transaction: the workspace, the user, who administers it, and the membership.
Join(c) ==
  LET j == joining[c]
      w == IF j.workspace = 0 THEN Len(workspaces) + 1 ELSE j.workspace
      u == Len(accounts) + 1
      joins == ~HasAccount(j.email) /\ (j.workspace # 0 \/ j.slug \notin Range(workspaces))
  IN
  /\ j # NoEdit
  /\ joining' = [joining EXCEPT ![c] = NoEdit]
  /\ workspaces' = IF LeavesWorkspace(j) THEN Append(workspaces, j.slug) ELSE workspaces
  /\ IF joins
     THEN /\ accounts' = Append(accounts, j.email)
          /\ \E role \in IF j.workspace = 0 THEN {"admin"} ELSE {"admin", "agent", "viewer"} :
               members' = members \cup {[user |-> u, workspace |-> w, role |-> role]}
     ELSE UNCHANGED <<accounts, members>>
  /\ UNCHANGED <<itemVars, draftVars>>

PeopleNext ==
  \E c \in Editors :
    \/ \E email \in Emails, slug \in Slugs : StartJoin(c, email, slug, 0)
    \/ \E email \in Emails, w \in DOMAIN workspaces :
         StartJoin(c, email, workspaces[w], w)
    \/ Join(c)

-----------------------------------------------------------------------------
SettingsInit ==
  /\ table \in {"ai", "canned"}
  /\ items = [i \in {} |-> FreshRow] /\ edits = 0 /\ given = [i \in {} |-> FreshRow]
  /\ editing = [c \in Editors |-> NoEdit]
  /\ transcript \in Transcripts
  /\ draft = [at |-> "none", key |-> "", turns |-> <<>>]
  /\ accounts = <<>> /\ workspaces = <<>> /\ members = {}
  /\ joining = [c \in Editors |-> NoEdit]

SettingsNext == ItemsNext \/ DraftReply \/ Completion \/ PeopleNext

SettingsSpec == SettingsInit /\ [][SettingsNext]_settingsVars

-----------------------------------------------------------------------------
SettingsTypeOK ==
  /\ table \in {"ai", "canned"}
  /\ edits \in 0 .. MaxEdits
  /\ DOMAIN items \subseteq 1 .. MaxEdits /\ \A i \in DOMAIN items : items[i] \in Item
  /\ DOMAIN given = DOMAIN items
  /\ \A c \in Editors : editing[c] = NoEdit \/ editing[c] \in Edit
  /\ transcript \in Transcripts
  /\ accounts \in Seq(Emails) /\ workspaces \in Seq(Slugs)
  /\ members \subseteq [user : DOMAIN accounts, workspace : Nat, role : {"admin", "agent", "viewer"}]

\* Every column of a connection or a quick reply has what the last successful request
\* about it said, however the requests of several people interleave: an update writes
\* the columns it is about and a test none of them, although both loaded the row before
\* (ai-connections.service.ts:124-183, 209-235; canned-responses.service.ts:94-132).
EditsAreKept ==
  \A i \in DOMAIN items :
    given[i] = [label |-> items[i].label, content |-> items[i].content, active |-> items[i].active]

\* Whatever a draft is made from, the provider gets turns that alternate from the
\* client's on, with every text of the last messages from the first of the client in
\* its place (ai-draft-reply.service.ts:79-138).
DraftFollowsChat ==
  LET turns == draft.turns
      Said(t) == {turns[t].content[j] : j \in DOMAIN turns[t].content}
      sent == UNION {Said(t) : t \in DOMAIN turns}
  IN
  turns # <<>> =>
    /\ \A t \in DOMAIN turns :
         /\ turns[t].role = IF t % 2 = 1 THEN "user" ELSE "assistant"
         /\ \A n \in Said(t) : transcript[n].role = turns[t].role
    /\ \A n \in DOMAIN transcript :
         n \in sent <=>
           /\ ~transcript[n].blank
           /\ \E f \in 1 .. n : /\ f + HistoryLimit > Len(transcript)
                                /\ transcript[f].role = "user" /\ ~transcript[f].blank
    /\ \A t \in DOMAIN turns : \A j \in DOMAIN turns[t].content :
         /\ \A k \in 1 .. j - 1 : turns[t].content[k] < turns[t].content[j]
         /\ \A u \in 1 .. t - 1 : \A n \in Said(u) : n < turns[t].content[j]

\* Registrations that race for an email or a slug leave no workspace that nobody
\* administers, and no account without its membership, where its login would be refused
\* or ambiguous (auth.service.ts:32-73, 89-104; team.service.ts:46-75).
EveryoneBelongs ==
  /\ \A w \in DOMAIN workspaces : \E m \in members : m.workspace = w /\ m.role = "admin"
  /\ \A u \in DOMAIN accounts : Cardinality({m \in members : m.user = u}) = 1

\* Racing requests of a workspace's people take nothing from each other (EditsAreKept,
\* EveryoneBelongs), and what the drafts send is the chat (DraftFollowsChat).
SettingsInv == EditsAreKept /\ EveryoneBelongs /\ DraftFollowsChat

\* "Provider test connection and health status" (ai-native-byok-architecture.md:42): the
\* health that a connection shows is that of its key.  An update that replaces the key
\* leaves the health of the old one, and so does a test that was running.
HealthIsOfTheKey == table = "ai" => \A i \in DOMAIN items : items[i].healthOf = items[i].content

\* Testing a connection says nothing of which one drafts use.  The test counts as the
\* latest write.
TestsChooseNothing ==
  [][\A c \in Editors :
       editing[c] # NoEdit /\ editing[c].op = "test" /\ WriteItem(c) /\ ActiveConnections # {}
         => Connection' = Connection]_settingsVars
=============================================================================
