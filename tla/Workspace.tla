----------------------------- MODULE Workspace ------------------------------
(***************************************************************************)
(* What a user arranges around the answers: folders, conversations and the  *)
(* knowledge bases bound to them, and templates; rows of one PostgreSQL     *)
(* database that several server processes change.                           *)
(*                                                                          *)
(* A server answers these requests without an await, one after the other.   *)
(* Requests of different servers interleave between transactions, and a     *)
(* bind, which writes row after row, also inside its transaction: READ      *)
(* COMMITTED, a statement sees the rows committed when it starts and waits  *)
(* for rows another transaction has written.                                *)
(***************************************************************************)
EXTENDS Integers, Sequences, FiniteSets

CONSTANTS
  Servers, Kbs, Labels,
  Texts,           \* of templates
  Absent,          \* no row
  FolderKey,       \* whether the tables are those of app/migrations, in which a
                   \* conversation's folder is a foreign key, or of ensure_schema
  MaxRows,         \* bound: folders, conversations, templates ever created, each
  MaxCalls,        \* bound: requests
  MaxLosses        \* bound: lost connections

ASSUME WorkspaceAssumption ==
  /\ MaxRows \in Nat /\ MaxCalls \in Nat /\ MaxLosses \in Nat
  /\ Absent \notin Labels \cup Texts
  /\ FolderKey \in BOOLEAN

Rows == 1 .. MaxRows

VARIABLES
  folder,     \* t_dim_folder: the name of each folder, one owner's
  conv,       \* t_dim_conversation: status and folder
  link,       \* t_fact_conversation_kb: "none", "on", "off"
  template,   \* t_dim_chat_template: name, content and the content the snippet is of
  at,         \* what each server is in the midst of
  made,       \* rows ever created in each table
  spent,      \* requests and lost connections so far, for the bounds
  bound,      \* history: the last bind of each conversation, and whether it was alone
  meant       \* history: each template as its updates meant it; `raced' when an update
              \* wrote what it had read before another one's write

tables == <<folder, conv, link, template>>
workspaceVars == <<tables, at, made, spent, bound, meant>>

Unoccupied == [doing |-> "nothing"]
NoTemplate == [name |-> Absent, content |-> Absent, snippet |-> Absent]
NoConv == [status |-> "none", folder |-> 0]

WorkspaceInit ==
  /\ folder = [i \in Rows |-> Absent]
  /\ conv = [i \in Rows |-> NoConv]
  /\ link = [i \in Rows |-> [k \in Kbs |-> "none"]]
  /\ template = [i \in Rows |-> NoTemplate]
  /\ at = [s \in Servers |-> Unoccupied]
  /\ made = [folders |-> 0, convs |-> 0, templates |-> 0]
  /\ spent = [requests |-> 0, faults |-> 0]
  /\ bound = [i \in Rows |-> [kbs |-> {}, alone |-> TRUE]]
  /\ meant = [i \in Rows |-> [row |-> NoTemplate, raced |-> FALSE]]

Free(s) == at[s].doing = "nothing"

\* A request comes in.
Request ==
  /\ spent.requests < MaxCalls
  /\ spent' = [spent EXCEPT !.requests = @ + 1]

-----------------------------------------------------------------------------
(* Folders: each request is one transaction.                                *)

\* The unique index on owner, team and name; for a template on owner and name.
NameFree(names, i, name) == \A j \in DOMAIN names \ {i} : names[j] # name

CreateFolder(name) ==
  /\ Request /\ made.folders < MaxRows
  /\ NameFree(folder, made.folders + 1, name)
  /\ folder' = [folder EXCEPT ![made.folders + 1] = name]
  /\ made' = [made EXCEPT !.folders = @ + 1]
  /\ UNCHANGED <<conv, link, template, at, bound, meant>>

RenameFolder(i, name) ==
  /\ Request /\ folder[i] # Absent
  /\ NameFree(folder, i, name)
  /\ folder' = [folder EXCEPT ![i] = name]
  /\ UNCHANGED <<conv, link, template, at, made, bound, meant>>

\* With the foreign key the conversations in it are in none afterwards (ON DELETE SET
\* NULL); without it they keep its id.
DeleteFolder(i) ==
  /\ Request /\ folder[i] # Absent
  /\ folder' = [folder EXCEPT ![i] = Absent]
  /\ conv' = [c \in Rows |-> IF FolderKey /\ conv[c].folder = i
                             THEN [conv[c] EXCEPT !.folder = 0] ELSE conv[c]]
  /\ UNCHANGED <<link, template, at, made, bound, meant>>

-----------------------------------------------------------------------------
(* Conversations.                                                           *)

Seen == 0 .. made.folders   \* folder ids a client may name; 0 is none

\* No look at the folders: the id may be of one that was deleted, and is refused where it
\* is a foreign key.
Accepted(i) == FolderKey /\ i # 0 => folder[i] # Absent

CreateConv(i) ==
  /\ Request /\ made.convs < MaxRows
  /\ i \in Seen /\ Accepted(i)
  /\ conv' = [conv EXCEPT ![made.convs + 1] = [status |-> "active", folder |-> i]]
  /\ made' = [made EXCEPT !.convs = @ + 1]
  /\ UNCHANGED <<folder, link, template, at, bound, meant>>

\* update_conversation and delete_conversation look for the conversation first
\* (_ensure_conversation_mutable), in a connection of its own.
MoveBegin(s, c, i) ==
  /\ Request /\ Free(s) /\ conv[c].status = "active" /\ i \in Seen
  /\ at' = [at EXCEPT ![s] = [doing |-> "move", conv |-> c, folder |-> i]]
  /\ UNCHANGED <<tables, made, bound, meant>>

\* Variant: all columns are written, as they were read.
MoveEnd_AllColumns(s) ==
  /\ at[s].doing = "move"
  /\ conv' = [conv EXCEPT ![at[s].conv] = [status |-> "active", folder |-> at[s].folder]]
  /\ at' = [at EXCEPT ![s] = Unoccupied]
  /\ UNCHANGED <<folder, link, template, made, spent, bound, meant>>

\* update: it looks again, and writes.
MoveEnd(s) ==
  /\ at[s].doing = "move"
  /\ conv' = IF conv[at[s].conv].status = "active" /\ Accepted(at[s].folder)
               THEN [conv EXCEPT ![at[s].conv].folder = at[s].folder] ELSE conv
  /\ at' = [at EXCEPT ![s] = Unoccupied]
  /\ UNCHANGED <<folder, link, template, made, spent, bound, meant>>

DeleteBegin(s, c) ==
  /\ Request /\ Free(s) /\ conv[c].status = "active"
  /\ at' = [at EXCEPT ![s] = [doing |-> "delete", conv |-> c]]
  /\ UNCHANGED <<tables, made, bound, meant>>

\* soft_delete: the second of two deletions finds nothing to do and is refused.
DeleteEnd(s) ==
  /\ at[s].doing = "delete"
  /\ conv' = [conv EXCEPT ![at[s].conv].status = "deleted"]
  /\ at' = [at EXCEPT ![s] = Unoccupied]
  /\ UNCHANGED <<folder, link, template, made, spent, bound, meant>>

-----------------------------------------------------------------------------
(* bind_knowledge_bases: one transaction of many statements.                *)

Binds(s) == at[s].doing = "bind"
Others(s) == {t \in Servers \ {s} : Binds(t) /\ at[t].conv = at[s].conv}

\* A row another transaction has written and not committed.
Locked(s, k) == \E t \in Others(s) : k \in DOMAIN at[t].wrote

\* The conversation is there, and the first statement sees its links.  The history notes
\* which binds of one conversation overlap.
BindBegin(s, c, kbs) ==
  /\ Request /\ Free(s) /\ conv[c].status = "active"
  /\ LET beside == {t \in Servers : Binds(t) /\ at[t].conv = c}
     IN at' = [t \in Servers |->
                 IF t = s
                 THEN [doing |-> "bind", conv |-> c, kbs |-> kbs,
                       off |-> {k \in Kbs : link[c][k] # "none"}, wrote |-> <<>>,
                       alone |-> beside = {}]
                 ELSE IF t \in beside THEN [at[t] EXCEPT !.alone = FALSE] ELSE at[t]]
  /\ UNCHANGED <<tables, made, bound, meant>>

Wrote(s, k, value) ==
  at' = [at EXCEPT ![s].wrote = [j \in DOMAIN @ \cup {k} |-> IF j = k THEN value ELSE @[j]],
                   ![s].off = @ \ {k},
                   ![s].kbs = IF value = "on" THEN Tail(@) ELSE @]

\* Variant: the links that were there stay active.
BindOff_Keeps(s, k) ==
  /\ Binds(s) /\ k \in at[s].off /\ ~Locked(s, k)
  /\ at' = [at EXCEPT ![s].off = @ \ {k}]
  /\ UNCHANGED <<tables, made, spent, bound, meant>>

\* SET is_active = false, row after row.
BindOff(s, k) ==
  /\ Binds(s) /\ k \in at[s].off /\ ~Locked(s, k)
  /\ Wrote(s, k, "off")
  /\ UNCHANGED <<tables, made, spent, bound, meant>>

\* INSERT ... ON CONFLICT DO UPDATE SET is_active = true, in the order of the request.
BindOn(s) ==
  /\ Binds(s) /\ at[s].off = {} /\ at[s].kbs # <<>> /\ ~Locked(s, Head(at[s].kbs))
  /\ Wrote(s, Head(at[s].kbs), "on")
  /\ UNCHANGED <<tables, made, spent, bound, meant>>

BindCommit(s) ==
  /\ Binds(s) /\ at[s].off = {} /\ at[s].kbs = <<>>
  /\ LET wrote == at[s].wrote
     IN /\ link' = [link EXCEPT ![at[s].conv] =
                      [k \in Kbs |-> IF k \in DOMAIN wrote THEN wrote[k] ELSE @[k]]]
        /\ bound' = [bound EXCEPT ![at[s].conv] =
                       [kbs |-> {k \in DOMAIN wrote : wrote[k] = "on"}, alone |-> at[s].alone]]
  /\ at' = [at EXCEPT ![s] = Unoccupied]
  /\ UNCHANGED <<folder, conv, template, made, spent, meant>>

\* The rows a bind still has to write, and whether it waits for another one.
Needs(s) == IF at[s].off # {} THEN at[s].off
            ELSE IF at[s].kbs # <<>> THEN {Head(at[s].kbs)} ELSE {}
Blocked(s) == Binds(s) /\ Needs(s) # {} /\ \A k \in Needs(s) : Locked(s, k)
\* The database ends one of two binds that wait for each other; the request fails.
BindDeadlock(s) ==
  /\ Blocked(s)
  /\ \E t \in Others(s) : Blocked(t) /\ Needs(s) \cap DOMAIN at[t].wrote # {}
                                  /\ Needs(t) \cap DOMAIN at[s].wrote # {}
  /\ at' = [at EXCEPT ![s] = Unoccupied]
  /\ UNCHANGED <<tables, made, spent, bound, meant>>

\* The connection is lost, or the server dies: nothing of an open transaction stays.
Lost(s) ==
  /\ spent.faults < MaxLosses /\ spent' = [spent EXCEPT !.faults = @ + 1]
  /\ ~Free(s)
  /\ at' = [at EXCEPT ![s] = Unoccupied]
  /\ UNCHANGED <<tables, made, bound, meant>>

-----------------------------------------------------------------------------
(* Templates.  A snippet is made from the content, or given with it.  The   *)
(* scope, which a request gives or leaves as it does the content, is left   *)
(* out.                                                                     *)

TemplateNames == [i \in Rows |-> template[i].name]

CreateTemplate(name, content, snippet) ==
  /\ Request /\ made.templates < MaxRows
  /\ NameFree(TemplateNames, made.templates + 1, name)
  /\ LET row == [name |-> name, content |-> content, snippet |-> snippet]
     IN /\ template' = [template EXCEPT ![made.templates + 1] = row]
        /\ meant' = [meant EXCEPT ![made.templates + 1].row = row]
  /\ made' = [made EXCEPT !.templates = @ + 1]
  /\ UNCHANGED <<folder, conv, link, at, bound>>

\* A row with what a request gives; a snippet it does not give is made anew with the
\* content.
Resolved(row, given) ==
  [name |-> IF given.name = Absent THEN row.name ELSE given.name,
   content |-> IF given.content = Absent THEN row.content ELSE given.content,
   snippet |-> IF given.snippet # Absent THEN given.snippet
               ELSE IF given.content = Absent THEN row.snippet ELSE given.content]

\* What a request means to do to a row: it sets what it gives, the snippet last.
Meant(row, given) ==
  LET set == IF given.content = Absent THEN row
             ELSE [row EXCEPT !.content = given.content, !.snippet = given.content]
      cut == IF given.snippet = Absent THEN set ELSE [set EXCEPT !.snippet = given.snippet]
  IN IF given.name = Absent THEN cut ELSE [cut EXCEPT !.name = given.name]

\* update reads the row in one transaction ...
UpdateBegin(s, t, given) ==
  /\ Request /\ Free(s) /\ template[t] # NoTemplate
  /\ at' = [at EXCEPT ![s] = [doing |-> "update", of |-> t, given |-> given, read |-> template[t]]]
  /\ UNCHANGED <<tables, made, bound, meant>>

\* ... and writes all columns in another, unless the row is gone or the name taken.
UpdateEnd(s) ==
  /\ at[s].doing = "update"
  /\ LET t == at[s].of
         row == Resolved(at[s].read, at[s].given)
     IN IF template[t] # NoTemplate /\ NameFree(TemplateNames, t, row.name)
        THEN /\ template' = [template EXCEPT ![t] = row]
             /\ meant' = [meant EXCEPT ![t] =
                            [row |-> Meant(@.row, at[s].given),
                             raced |-> @.raced \/ template[t] # at[s].read]]
        ELSE UNCHANGED <<template, meant>>
  /\ at' = [at EXCEPT ![s] = Unoccupied]
  /\ UNCHANGED <<folder, conv, link, made, spent, bound>>

DeleteTemplate(t) ==
  /\ Request /\ template[t] # NoTemplate
  /\ template' = [template EXCEPT ![t] = NoTemplate]
  /\ meant' = [meant EXCEPT ![t].row = NoTemplate]
  /\ UNCHANGED <<folder, conv, link, at, made, bound>>

-----------------------------------------------------------------------------
GivenFields == [name : Labels \cup {Absent}, content : Texts \cup {Absent},
                snippet : Texts \cup {Absent}]
\* A list without repetitions: bind_knowledge_bases drops them.
KbLists == {<<k>> : k \in Kbs} \cup {l \in Kbs \X Kbs : l[1] # l[2]}

WorkspaceNext ==
  \/ \E name \in Labels : CreateFolder(name) \/ \E i \in Rows : RenameFolder(i, name)
  \/ \E i \in Rows : DeleteFolder(i) \/ DeleteTemplate(i)
  \/ \E i \in Seen : CreateConv(i)
  \/ \E name \in Labels, content, snippet \in Texts : CreateTemplate(name, content, snippet)
  \/ \E s \in Servers :
       \/ \E c \in Rows : \/ \E i \in Seen : MoveBegin(s, c, i)
                         \/ DeleteBegin(s, c)
                         \/ \E kbs \in KbLists : BindBegin(s, c, kbs)
       \/ \E t \in Rows, given \in GivenFields : UpdateBegin(s, t, given)
       \/ \E k \in Kbs : BindOff(s, k)
       \/ MoveEnd(s) \/ DeleteEnd(s) \/ BindOn(s) \/ BindCommit(s) \/ BindDeadlock(s)
       \/ UpdateEnd(s) \/ Lost(s)

-----------------------------------------------------------------------------
(* Properties.                                                              *)

Active(c) == {k \in Kbs : link[c][k] = "on"}

Bind == [doing : {"bind"}, conv : Rows, kbs : Seq(Kbs), off : SUBSET Kbs,
         wrote : UNION {[d -> {"on", "off"}] : d \in SUBSET Kbs}, alone : BOOLEAN]
Templates == [name : Labels \cup {Absent}, content : Texts \cup {Absent},
              snippet : Texts \cup {Absent}]
Busy(a) ==
  \/ a = Unoccupied
  \/ a.doing = "move" /\ a.conv \in 1 .. made.convs /\ a.folder \in Seen
  \/ a.doing = "delete" /\ a.conv \in 1 .. made.convs
  \/ a.doing = "bind" /\ a \in Bind /\ a.conv <= made.convs
  \/ a.doing = "update" /\ a.of \in 1 .. made.templates /\ a.read \in Templates

\* Every variable has its type; rows are those that were made, and nothing refers to a row
\* that never was.
WorkspaceTypeOK ==
  /\ made \in [folders : 0 .. MaxRows, convs : 0 .. MaxRows, templates : 0 .. MaxRows]
  /\ \A i \in Rows : folder[i] # Absent => folder[i] \in Labels /\ i <= made.folders
  /\ \A i \in Rows :
       IF i <= made.convs THEN conv[i] \in [status : {"active", "deleted"}, folder : Seen]
       ELSE conv[i] = NoConv
  /\ link \in [Rows -> [Kbs -> {"none", "on", "off"}]]
  /\ \A i \in Rows : template[i] \in Templates /\ (template[i] # NoTemplate => i <= made.templates)
  /\ \A s \in Servers : Busy(at[s])
  /\ spent \in [requests : 0 .. MaxCalls, faults : 0 .. MaxLosses]

\* An owner's folders have different names, and so have the templates, whatever servers
\* create and rename at once (folder and template repositories).
NamesAreUnique ==
  \A i, j \in Rows : i # j =>
    /\ folder[i] # Absent => folder[i] # folder[j]
    /\ template[i] # NoTemplate => template[i].name # template[j].name

\* A deleted conversation stays deleted, also when a server that looked at it before is
\* still to write it (update, soft_delete).
DeletedStaysDeleted ==
  [][\A c \in Rows : conv[c].status = "deleted" => conv'[c].status = "deleted"]_workspaceVars

\* What the last bind of a conversation asked for is active; and nothing else is, unless
\* another bind of the conversation was under way beside it (bind_knowledge_bases).
LastBindIsActive ==
  \A c \in Rows :
    /\ bound[c].kbs \subseteq Active(c)
    /\ bound[c].alone => Active(c) = bound[c].kbs

\* An update of a template is lost only to one that had read the template before it was
\* written; otherwise each field is what was given last, the snippet that of the content
\* where none was given since (TemplateRepository.update).
LostOnlyToOverlap ==
  \A t \in Rows : ~meant[t].raced => template[t] = meant[t].row

\* Whatever several servers write at once, no name is there twice, what the last bind asked
\* for is active, and an update is lost only to one it overlapped (the repositories of
\* folders, templates and conversations).
ServersAgree == NamesAreUnique /\ LastBindIsActive /\ LostOnlyToOverlap
=============================================================================
