----------------------------- MODULE RAGSystem ------------------------------
(***************************************************************************)
(* RAGSystem: documents are accepted by the owner's thread and processed   *)
(* by a thread of the global pool each, which appends their chunks to      *)
(* m_documentChunks without the mutex and enters the document into         *)
(* m_knowledgeBase, under it, at the end.  Questions are answered from the *)
(* chunks; only the documents are saved, and a load rebuilds the chunks.   *)
(* Some calls emit a signal with the mutex held, which is not recursive: a *)
(* slot connected directly that calls back, even for the titles, waits for *)
(* itself for ever.                                                        *)
(*                                                                         *)
(* Documents are numbered in the order they were accepted, over all runs   *)
(* of the program; a chunk is its document's number and its place in it.   *)
(***************************************************************************)
EXTENDS Naturals, FiniteSets

CONSTANTS
  Titles,        \* titles documents are given
  ChunkCounts,   \* how many chunks chunkText makes of a document
  MaxAdds,       \* bound: how many documents are accepted
  MaxCrashes     \* bound: how often the program crashes

ASSUME ConstantsAssumption ==
  /\ ChunkCounts \subseteq Nat /\ Titles # {} /\ MaxAdds \in Nat
  /\ MaxCrashes \in Nat

VARIABLES
  knowledgeBase,   \* m_knowledgeBase: the document under each title, or 0
  documentChunks,  \* m_documentChunks: how often it holds each document's chunks
  file,            \* knowledge_base.json
  phase,           \* of the owner's thread
  fate,            \* "running", or "undefined" after a data race or a use of
                   \* the destroyed object
  adds,            \* documents accepted so far
  title, size,     \* of each document: its title, its number of chunks
  pc,              \* where each document is in processDocumentAsync
  appended,        \* how many of its chunks have been appended
  crashes,         \* history: how often the program crashed
  damaged,         \* history: a save or a load failed, or a crash hit a save
  hasty,           \* history: since the program started, a document was
                   \* accepted, or the program left, or the chunks were used,
                   \* at a moment when another document was in process
  mixed            \* history: titles replaced, or removed, cleared or
                   \* loaded while one of their documents was in process

docVars == <<adds, title, size>>
histVars == <<crashes, damaged, hasty>>
vars == <<knowledgeBase, documentChunks, file, phase, fate, docVars, pc,
          appended, histVars, mixed>>

-----------------------------------------------------------------------------
Adds == 1 .. MaxAdds
Places == UNION {1 .. n : n \in ChunkCounts}
Library == [Titles -> 0 .. MaxAdds]

NoDocuments == [t \in Titles |-> 0]
NoChunks == [r \in Adds |-> [i \in Places |-> 0]]

\* open: between two calls; saving, closing: in saveKnowledgeBase, called by
\* the user or by the destructor, with the file truncated and the mutex held
\* stuck: waiting for ever for the mutex it holds
Phases == {"closed", "open", "saving", "closing", "stuck"}

\* append: about to append the next chunk, or all appended and about to store
\* lost: the program ended first
InProcess(r) == pc[r] = "append"
Appending(r) == InProcess(r) /\ appended[r] < size[r]

SomeInProcess == \E r \in Adds : InProcess(r)

\* What processes of a title have put into the index so far.
Unstored(t) == \E r \in Adds : InProcess(r) /\ title[r] = t /\ appended[r] > 0

\* The chunks of documents `docs', each once.
ChunksOf(docs) ==
  [r \in Adds |-> [i \in Places |->
     IF docs[title[r]] = r /\ i <= size[r] THEN 1 ELSE 0]]

Init ==
  /\ knowledgeBase = NoDocuments /\ documentChunks = NoChunks
  /\ file = [is |-> "absent", docs |-> NoDocuments] /\ phase = "closed"
  /\ fate = "running" /\ adds = 0
  /\ title = [r \in Adds |-> CHOOSE t \in Titles : TRUE]
  /\ size = [r \in Adds |-> 0] /\ pc = [r \in Adds |-> "none"]
  /\ appended = [r \in Adds |-> 0] /\ crashes = 0 /\ damaged = FALSE
  /\ hasty = FALSE /\ mixed = {}

Calling == fate = "running" /\ phase = "open"

-----------------------------------------------------------------------------
(***************************************************************************)
(* The owner's calls.                                                      *)
(***************************************************************************)

\* A signal emitted with the mutex held: its slots return, and the thread goes
\* `on', or one of them calls back.
EmitLocked(on) == phase' \in {on, "stuck"}

\* A call refused (no such file, empty text, an unknown title, a file that
\* cannot be written) changes nothing but emits errorOccurred.
refuse ==
  /\ Calling /\ EmitLocked("open")
  /\ UNCHANGED <<knowledgeBase, documentChunks, file, fate, docVars, pc,
                 appended, histVars, mixed>>

\* addText, and addDocument once it has read its file.
addText(t, n) ==
  /\ Calling /\ adds < MaxAdds
  /\ adds' = adds + 1 /\ title' = [title EXCEPT ![adds + 1] = t]
  /\ size' = [size EXCEPT ![adds + 1] = n]
  /\ pc' = [pc EXCEPT ![adds + 1] = "append"]
  /\ hasty' = (hasty \/ SomeInProcess)
  /\ UNCHANGED <<knowledgeBase, documentChunks, file, phase, fate, appended,
                 crashes, damaged, mixed>>

\* Variant with a defect: the chunks are left in the index.
removeDocumentKeepingChunks(t) ==
  /\ Calling /\ knowledgeBase[t] # 0 /\ EmitLocked("open")
  /\ knowledgeBase' = [knowledgeBase EXCEPT ![t] = 0]
  /\ mixed' = IF Unstored(t) THEN mixed \union {t} ELSE mixed \ {t}
  /\ UNCHANGED <<documentChunks, file, fate, docVars, pc, appended, histVars>>

removeDocument(t) ==
  /\ Calling /\ knowledgeBase[t] # 0 /\ EmitLocked("open")
  /\ knowledgeBase' = [knowledgeBase EXCEPT ![t] = 0]
  /\ documentChunks' =
       [r \in Adds |-> IF title[r] = t THEN NoChunks[r] ELSE documentChunks[r]]
  /\ mixed' = IF Unstored(t) THEN mixed \union {t} ELSE mixed \ {t}
  /\ UNCHANGED <<file, fate, docVars, pc, appended, histVars>>

clearKnowledgeBase ==
  /\ Calling /\ EmitLocked("open")
  /\ knowledgeBase' = NoDocuments /\ documentChunks' = NoChunks
  /\ mixed' = {t \in Titles : Unstored(t)}
  /\ UNCHANGED <<file, fate, docVars, pc, appended, histVars>>

-----------------------------------------------------------------------------
(***************************************************************************)
(* Persistence.                                                            *)
(***************************************************************************)

\* The file has been opened, which truncates it.  (`docs' still remembers
\* what it held.)
saveKnowledgeBase ==
  /\ Calling
  /\ phase' = "saving" /\ file' = [file EXCEPT !.is = "damaged"]
  /\ UNCHANGED <<knowledgeBase, documentChunks, fate, docVars, pc, appended,
                 histVars, mixed>>

\* Where the thread goes when a save returns.
AfterSave == IF phase = "saving" THEN "open" ELSE "closed"

writeFile ==
  /\ fate = "running" /\ phase \in {"saving", "closing"}
  /\ phase' = AfterSave /\ file' = [is |-> "whole", docs |-> knowledgeBase]
  /\ UNCHANGED <<knowledgeBase, documentChunks, fate, docVars, pc, appended,
                 histVars, mixed>>

\* The disk is full: the result of write is not looked at.
writeFileFails ==
  /\ fate = "running" /\ phase \in {"saving", "closing"}
  /\ phase' = AfterSave /\ file' = [is |-> "damaged", docs |-> NoDocuments]
  /\ damaged' = TRUE
  /\ UNCHANGED <<knowledgeBase, documentChunks, fate, docVars, pc, appended,
                 crashes, hasty, mixed>>

\* A file that is absent, cannot be read or does not parse changes nothing;
\* that is reported before the mutex is taken.
loadKnowledgeBase ==
  /\ Calling /\ file.is = "whole"
  /\ knowledgeBase' = file.docs /\ documentChunks' = ChunksOf(file.docs)
  /\ mixed' = {t \in Titles : Unstored(t)}
  /\ UNCHANGED <<file, phase, fate, docVars, pc, appended, histVars>>

\* The constructor, in a new process, finds the documents `docs'.
Construct(docs) ==
  /\ fate = "running" /\ phase = "closed"
  /\ phase' = "open" /\ knowledgeBase' = docs
  /\ documentChunks' = ChunksOf(docs) /\ mixed' = {} /\ hasty' = FALSE
  /\ pc' = [r \in Adds |-> IF InProcess(r) THEN "lost" ELSE pc[r]]
  /\ UNCHANGED <<file, fate, docVars, appended, crashes>>

start ==
  /\ Construct(IF file.is = "whole" THEN file.docs ELSE NoDocuments)
  /\ UNCHANGED damaged

startUnreadable ==
  /\ file.is = "whole" /\ Construct(NoDocuments)
  /\ damaged' = TRUE

\* Variant with a defect: the destructor does not save.
destroyUnsaved ==
  /\ Calling
  /\ phase' = "closed"
  /\ hasty' = (hasty \/ SomeInProcess)
  /\ UNCHANGED <<knowledgeBase, documentChunks, file, fate, docVars, pc,
                 appended, crashes, damaged, mixed>>

\* ~RAGSystem saves, without waiting for the documents in process.
destroy ==
  /\ Calling
  /\ phase' = "closing" /\ file' = [file EXCEPT !.is = "damaged"]
  /\ hasty' = (hasty \/ SomeInProcess)
  /\ UNCHANGED <<knowledgeBase, documentChunks, fate, docVars, pc, appended,
                 crashes, damaged, mixed>>

\* Its save cannot open the file, which it emits, and the result is not looked
\* at.
destroyRefused ==
  /\ Calling /\ EmitLocked("closed")
  /\ damaged' = TRUE
  /\ hasty' = (hasty \/ SomeInProcess)
  /\ UNCHANGED <<knowledgeBase, documentChunks, file, fate, docVars, pc,
                 appended, crashes, mixed>>

\* The process dies.
crash ==
  /\ fate = "running" /\ phase # "closed" /\ crashes < MaxCrashes
  /\ crashes' = crashes + 1 /\ phase' = "closed"
  /\ pc' = [r \in Adds |-> IF InProcess(r) THEN "lost" ELSE pc[r]]
  /\ IF phase \in {"saving", "closing"}
       THEN /\ file' = [is |-> "damaged", docs |-> NoDocuments]
            /\ damaged' = TRUE
       ELSE UNCHANGED <<file, damaged>>
  /\ UNCHANGED <<knowledgeBase, documentChunks, fate, docVars, appended, hasty,
                 mixed>>

-----------------------------------------------------------------------------
(***************************************************************************)
(* processDocumentAsync, on a thread of the pool.                          *)
(***************************************************************************)

ObjectExists == fate = "running" /\ phase # "closed"

appendChunk(r) ==
  /\ ObjectExists /\ Appending(r)
  /\ documentChunks' = [documentChunks EXCEPT ![r][appended[r] + 1] = @ + 1]
  /\ appended' = [appended EXCEPT ![r] = @ + 1]
  /\ UNCHANGED <<knowledgeBase, file, phase, fate, docVars, pc, histVars, mixed>>

\* Variant with a defect: a document without chunks is not stored.
storeDocumentWithChunks(r) ==
  /\ ObjectExists /\ phase = "open" /\ InProcess(r)
  /\ ~Appending(r) /\ size[r] > 0
  /\ knowledgeBase' = [knowledgeBase EXCEPT ![title[r]] = r]
  /\ pc' = [pc EXCEPT ![r] = "stored"]
  /\ mixed' = IF knowledgeBase[title[r]] # 0 THEN mixed \union {title[r]}
                                             ELSE mixed
  /\ UNCHANGED <<documentChunks, file, phase, fate, docVars, appended, histVars>>

\* Under the mutex, hence never during a save.  The chunks of a document that
\* had the title before stay.
storeDocument(r) ==
  /\ ObjectExists /\ phase = "open" /\ InProcess(r)
  /\ ~Appending(r)
  /\ knowledgeBase' = [knowledgeBase EXCEPT ![title[r]] = r]
  /\ pc' = [pc EXCEPT ![r] = "stored"]
  /\ mixed' = IF knowledgeBase[title[r]] # 0 THEN mixed \union {title[r]}
                                             ELSE mixed
  /\ UNCHANGED <<documentChunks, file, phase, fate, docVars, appended, histVars>>

processDocumentAsync(r) == appendChunk(r) \/ storeDocument(r)

\* An append can meet a second one, or a document in process has outlived
\* ~RAGSystem.
MeetsAnother(r) ==
  \/ Appending(r) /\ \E other \in Adds \ {r} : Appending(other)
  \/ InProcess(r) /\ phase = "closed"

\* Variant with a defect: the document is entered without the mutex.
undefinedAtEntryToo ==
  /\ fate = "running"
  /\ \E r \in Adds :
       \/ MeetsAnother(r) /\ UNCHANGED hasty
       \/ InProcess(r) /\ phase \in {"saving", "closing"} /\ UNCHANGED hasty
       \/ Appending(r) /\ phase = "open" /\ hasty' = TRUE
  /\ fate' = "undefined"
  /\ UNCHANGED <<knowledgeBase, documentChunks, file, phase, docVars, pc,
                 appended, crashes, damaged, mixed>>

\* Or a call uses m_documentChunks at the moment of the append.  A save looks
\* at m_knowledgeBase only, and both it and the entry take the mutex.
undefinedBehaviour ==
  /\ fate = "running"
  /\ \E r \in Adds :
       \/ MeetsAnother(r) /\ UNCHANGED hasty
       \/ Appending(r) /\ phase = "open" /\ hasty' = TRUE
  /\ fate' = "undefined"
  /\ UNCHANGED <<knowledgeBase, documentChunks, file, phase, docVars, pc,
                 appended, crashes, damaged, mixed>>

-----------------------------------------------------------------------------
Edit == \/ \E t \in Titles, n \in ChunkCounts : addText(t, n)
        \/ \E t \in Titles : removeDocument(t)
        \/ clearKnowledgeBase
        \/ refuse
Persist == saveKnowledgeBase \/ writeFile \/ writeFileFails \/ loadKnowledgeBase
Process == start \/ startUnreadable \/ destroy \/ destroyRefused \/ crash
Worker(r) == processDocumentAsync(r)

Next ==
  \/ Edit
  \/ Persist
  \/ Process
  \/ \E r \in Adds : Worker(r)
  \/ undefinedBehaviour

Spec == Init /\ [][Next]_vars

\* The pool runs what it was given, also if the owner keeps taking the mutex
\* to save, and a save returns.  A mutex its holder waits for is never free,
\* and nothing is assumed of it.
FairSpec ==
  /\ Spec
  /\ \A r \in Adds : SF_vars(Worker(r))
  /\ WF_vars(writeFile \/ writeFileFails)

-----------------------------------------------------------------------------
(***************************************************************************)
(* Properties.                                                             *)
(***************************************************************************)

\* Every variable has its type; no document has more chunks in the index than
\* it has.
TypeOK ==
  /\ knowledgeBase \in Library
  /\ documentChunks \in [Adds -> [Places -> Nat]]
  /\ file \in [is : {"absent", "damaged", "whole"}, docs : Library]
  /\ phase \in Phases
  /\ fate \in {"running", "undefined"}
  /\ adds \in 0 .. MaxAdds
  /\ title \in [Adds -> Titles]
  /\ size \in [Adds -> ChunkCounts \union {0}]
  /\ pc \in [Adds -> {"none", "append", "stored", "lost"}]
  /\ appended \in [Adds -> Nat]
  /\ \A r \in Adds : appended[r] <= size[r]
  /\ crashes \in 0 .. MaxCrashes
  /\ damaged \in BOOLEAN
  /\ hasty \in BOOLEAN
  /\ mixed \subseteq Titles

\* Whatever is in memory, nothing can be retrieved of a document that neither
\* has its title in the knowledge base nor is in process: no call, in no
\* order with the processing, leaves orphans in the index.
NoOrphans ==
  phase # "closed" => \A r \in Adds, i \in Places :
    documentChunks[r][i] > 0 => knowledgeBase[title[r]] # 0 \/ InProcess(r)

\* The chunks that can be retrieved under a title are those of its document,
\* each once, and those a document in process has appended so far, except
\* after a replacement or an interrupted processing; removing the title,
\* clearing, loading or a restart makes up for both.
IndexIsKnowledge ==
  phase # "closed" => \A r \in Adds, i \in Places :
    title[r] \notin mixed =>
      documentChunks[r][i] =
        IF InProcess(r) THEN IF i <= appended[r] THEN 1 ELSE 0
                        ELSE ChunksOf(knowledgeBase)[r][i]

\* The index neither keeps what is gone nor lacks what is stored.
IndexIsTrue == NoOrphans /\ IndexIsKnowledge

\* An owner who, with a document in process, neither accepts another nor uses
\* the chunks nor leaves is safe, whatever is saved meanwhile and however the
\* program ends: no other step of the two meets one of the thread's.
OnlyHasteIsUndefined == fate = "undefined" => hasty

\* A document accepted is stored in the end, with or without chunks, whatever
\* is called meanwhile, unless the program ends first or a slot of a signal
\* emitted under the mutex called back.
AcceptedIsStored ==
  \A r \in Adds :
    InProcess(r) ~> (pc[r] \in {"stored", "lost"} \/ phase \in {"closed", "stuck"}
                     \/ fate = "undefined")

\* What the file is good for; a save under way has not replaced the last yet.
SavedDocuments == IF file.is = "damaged" /\ phase \notin {"saving", "closing"}
                    THEN NoDocuments ELSE file.docs

\* The knowledge base keeps its promise (KnowledgeStore).  A document under a
\* title is known once it is stored.
Store == INSTANCE KnowledgeStore WITH
  Documents <- Adds,
  NoDocument <- 0,
  known <- knowledgeBase,
  saved <- SavedDocuments,
  open <- phase # "closed"

KeepsKnowledge == Store!Spec

=============================================================================
