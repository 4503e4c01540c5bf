------------------------------- MODULE PkbIndex -------------------------------
(***************************************************************************)
(* The semantic index of the Prompt Knowledge Base: a SQLite file next to  *)
(* the other caches of the home (engines/documentation/src/pkb-vectors.ts) *)
(* and the search that prefers it to the documents (searchPkb of           *)
(* index.ts).  A rebuild deletes all rows and inserts them one by one,     *)
(* each statement on its own, while other processes rebuild, search, and   *)
(* edit the documents.  The index is the home's; a rebuild and a search    *)
(* each name a repository, but rows are keyed by the path within it, and   *)
(* the search of the index does not ask whose they are.  An embedding is   *)
(* the content it is computed from.                                        *)
(***************************************************************************)
EXTENDS FiniteSetsExt, Integers

CONSTANTS
  PromptRepo, \* repositories
  Doc,        \* paths under docs/prompts/by-domain, as numbers in their order
  Topic,      \* what a search filters by: a domain and tags
  FirstDocs,  \* what the repositories may hold at first
  Rebuild,    \* calls that rebuild the index
  MaxDocEdits \* bound

Absent == [topic |-> "none", says |-> FALSE]

VARIABLES
  docs,       \* the content of each path in each repository, or Absent
  indexFile,  \* whether the file of the index exists
  vectors,    \* its rows: content by path
  step,       \* where each rebuild stands
  repoPath,   \* the repository it was called for
  left,       \* the documents it has still to index
  read,       \* the one it has read
  lastDelete, \* history: the last rebuild to delete the rows,
  late,       \* those that had deleted theirs before it and may still insert,
  touched,    \* and the repositories that were edited since
  missed,     \* history: documents a search left out when it should not
  docEdits    \* history: number of edits

historyVars == <<lastDelete, late, touched>>
pkbVars == <<docs, indexFile, vectors, step, repoPath, left, read, historyVars, missed, docEdits>>

Content == [topic : Topic, says : BOOLEAN]
OnDisk(r) == {d \in Doc : docs[r][d] # Absent}

PkbInit ==
  /\ docs \in FirstDocs
  /\ indexFile = FALSE
  /\ vectors = <<>>
  /\ step = [r \in Rebuild |-> "new"]
  /\ repoPath = [r \in Rebuild |-> "none"]
  /\ left = [r \in Rebuild |-> {}]
  /\ read = [r \in Rebuild |-> Absent]
  /\ lastDelete = "none" /\ late = {} /\ touched = {}
  /\ missed = {}
  /\ docEdits = 0

Active == {r \in Rebuild : step[r] \in {"opened", "deleted", "listed", "read"}}

EditDoc ==
  /\ docEdits < MaxDocEdits
  /\ docEdits' = docEdits + 1
  /\ \E r \in PromptRepo, d \in Doc, c \in Content \union {Absent} :
       /\ c # docs[r][d] /\ docs' = [docs EXCEPT ![r][d] = c]
       /\ touched' = touched \union {r}
  /\ UNCHANGED <<indexFile, vectors, step, repoPath, left, read, missed, lastDelete, late>>

-----------------------------------------------------------------------------
(* rebuildPkbVectorIndex                                                   *)

To(r, s) == step' = [step EXCEPT ![r] = s]

\* openDb(path, true) creates the file and its tables, or fails.
OpenDb(r) ==
  /\ step[r] = "new"
  /\ \/ To(r, "opened") /\ indexFile' = TRUE
     \/ To(r, "failed") /\ UNCHANGED indexFile
  /\ \E repo \in PromptRepo : repoPath' = [repoPath EXCEPT ![r] = repo]
  /\ UNCHANGED <<docs, vectors, left, read, missed, historyVars, docEdits>>

Deleted(r) == step[r] \in {"deleted", "listed", "read"}

\* DELETE FROM vectors, whosever rows they are
DeleteRows(r) ==
  /\ step[r] = "opened"
  /\ vectors' = <<>>
  /\ lastDelete' = r /\ late' = {q \in Rebuild : Deleted(q)} /\ touched' = {}
  /\ To(r, "deleted")
  /\ UNCHANGED <<docs, indexFile, repoPath, left, read, missed, docEdits>>

\* listPkbMarkdown
ListPkbMarkdown(r) ==
  /\ step[r] = "deleted"
  /\ left' = [left EXCEPT ![r] = OnDisk(repoPath[r])]
  /\ To(r, "listed")
  /\ UNCHANGED <<docs, indexFile, vectors, read, repoPath, missed, historyVars, docEdits>>

\* In path order the next document is read; one that has gone is skipped.
ReadDoc(r) ==
  /\ step[r] = "listed" /\ left[r] # {}
  /\ LET d == Min(left[r]) IN
       IF docs[repoPath[r]][d] = Absent
       THEN left' = [left EXCEPT ![r] = @ \ {d}] /\ UNCHANGED <<step, read>>
       ELSE read' = [read EXCEPT ![r] = docs[repoPath[r]][d]] /\ To(r, "read") /\ UNCHANGED left
  /\ UNCHANGED <<docs, indexFile, vectors, repoPath, missed, historyVars, docEdits>>

\* Mutant of Fail: an error is answered as success.
FailAsDone(r) ==
  /\ step' = [step EXCEPT ![r] = "ok"]
  /\ left' = [left EXCEPT ![r] = {}] /\ read' = [read EXCEPT ![r] = Absent]

\* The catch block answers ok: false, and leaves the rows as they are.
Fail(r) ==
  /\ To(r, "failed")
  /\ left' = [left EXCEPT ![r] = {}] /\ read' = [read EXCEPT ![r] = Absent]

\* INSERT: the path is the primary key, and a row of it an error.
InsertRow(r) ==
  /\ step[r] = "read"
  /\ LET d == Min(left[r]) IN
       IF d \in DOMAIN vectors
       THEN Fail(r) /\ UNCHANGED vectors
       ELSE /\ vectors' = [e \in DOMAIN vectors \union {d} |->
                             IF e = d THEN read[r] ELSE vectors[e]]
            /\ left' = [left EXCEPT ![r] = @ \ {d}]
            /\ read' = [read EXCEPT ![r] = Absent]
            /\ To(r, "listed")
  /\ UNCHANGED <<docs, indexFile, repoPath, missed, historyVars, docEdits>>

\* The rows of meta are written, the repository's path among them, which no
\* search reads; and the rebuild answers ok.
FinishRebuild(r) ==
  /\ step[r] = "listed" /\ left[r] = {}
  /\ To(r, "ok")
  /\ UNCHANGED <<docs, indexFile, vectors, left, read, repoPath, missed, historyVars, docEdits>>

\* A statement finds the database locked by another process, or the listing a
\* document gone that it has just seen.
Busy(r) ==
  /\ r \in Active
  /\ Fail(r)
  /\ UNCHANGED <<docs, indexFile, vectors, repoPath, missed, historyVars, docEdits>>

\* The process dies.
DieRebuilding(r) ==
  /\ r \in Active
  /\ To(r, "dead")
  /\ left' = [left EXCEPT ![r] = {}] /\ read' = [read EXCEPT ![r] = Absent]
  /\ UNCHANGED <<docs, indexFile, vectors, repoPath, missed, historyVars, docEdits>>

-----------------------------------------------------------------------------
(* searchPkb                                                               *)

\* searchPkbTextual: without a query or a filter, nothing.
SearchPkbTextual(repo, query, topic) ==
  IF ~query /\ topic = "any" THEN {}
  ELSE {d \in OnDisk(repo) :
          (topic # "any" => docs[repo][d].topic = topic) /\ (query => docs[repo][d].says)}

\* searchPkbIndex: every row that passes the filters, best first.
SearchPkbIndex(topic) ==
  {d \in DOMAIN vectors : topic # "any" => vectors[d].topic = topic}

\* The rows were last deleted by a rebuild for this repository, it answered ok,
\* and the repository was not edited since.
Sound(repo) ==
  /\ lastDelete \in Rebuild /\ step[lastDelete] = "ok"
  /\ repoPath[lastDelete] = repo /\ repo \notin touched

\* searchPkb in either mode.  The index answers if its file is there, however
\* few rows are in it and whosever; the documents of the repository do if it
\* is not, or is locked.
SearchPkb(repo, mode, query, topic) ==
  /\ LET byDocuments == SearchPkbTextual(repo, query, topic)
         asks == mode = "semantic" /\ query /\ indexFile
     IN  \E found \in {byDocuments, SearchPkbIndex(topic)} :
           /\ \/ asks /\ found = SearchPkbIndex(topic)
              \/ (~asks \/ Active # {}) /\ found = byDocuments
           /\ missed' = IF Sound(repo) THEN missed \union (byDocuments \ found) ELSE missed
  /\ UNCHANGED <<docs, indexFile, vectors, step, repoPath, left, read, historyVars, docEdits>>

PkbNext ==
  \/ EditDoc
  \/ \E r \in Rebuild :
       \/ OpenDb(r) \/ DeleteRows(r) \/ ListPkbMarkdown(r) \/ ReadDoc(r) \/ InsertRow(r)
       \/ FinishRebuild(r) \/ Busy(r) \/ DieRebuilding(r)
  \/ \E repo \in PromptRepo, mode \in {"semantic", "textual"}, query \in BOOLEAN,
        topic \in Topic \union {"any"} :
       SearchPkb(repo, mode, query, topic)

PkbSpec == PkbInit /\ [][PkbNext]_pkbVars

-----------------------------------------------------------------------------
(* Properties.                                                             *)

\* Rebuilds overlap, fail and die, for one repository or for several, and spoil
\* each other's rows.  But the last to delete does not answer ok unless its own
\* repository got through: until that is edited, the index holds each of its
\* documents as it is, and a search of it leaves out none that a search of the
\* documents finds (where there are no more than a search may return).  If no
\* other had still rows to insert, the index holds nothing else.  Nothing is
\* said of a search of another repository: it finds this one's.
IndexWhole ==
  /\ \A repo \in PromptRepo : Sound(repo) =>
       /\ \A d \in OnDisk(repo) : d \in DOMAIN vectors /\ vectors[d] = docs[repo][d]
       /\ late = {} => DOMAIN vectors \subseteq OnDisk(repo)
  /\ missed = {}
=============================================================================
