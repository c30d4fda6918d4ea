-------------------------- MODULE RAGSystem_proofs --------------------------
(***************************************************************************)
(* What holds of the knowledge base for any number of documents, titles,   *)
(* chunks and crashes.  The invariant adds to NoOrphans and                *)
(* IndexIsKnowledge that a document not yet accepted has left no trace     *)
(* (Fresh), and that documents in the knowledge base or in its file were   *)
(* stored, under their own titles (Stored).                                *)
(***************************************************************************)
EXTENDS RAGSystem, TLAPS

Fresh ==
  \A r \in Adds :
    /\ r > adds => pc[r] = "none"
    /\ pc[r] = "none" =>
         appended[r] = 0 /\ \A i \in Places : documentChunks[r][i] = 0

AreStored(docs) ==
  \A t \in Titles : docs[t] # 0 => title[docs[t]] = t /\ pc[docs[t]] = "stored"

Stored == AreStored(knowledgeBase) /\ AreStored(file.docs)

Inv == TypeOK /\ Fresh /\ Stored /\ NoOrphans /\ IndexIsKnowledge

-----------------------------------------------------------------------------
\* Chunks are counted from 1.
LEMMA PlacesArePositive == Places \subseteq Nat \ {0}
BY ConstantsAssumption, SMT DEF Places

\* Sizes are numbers.
LEMMA SizesAreNat ==
  ASSUME TypeOK, NEW r \in Adds PROVE size[r] \in Nat
<1>1. ChunkCounts \subseteq Nat /\ 0 \in Nat
  BY ConstantsAssumption
<1>2. size[r] \in ChunkCounts \union {0}
  BY DEF TypeOK
<1> QED
  BY <1>1, <1>2, Zenon

\* A document with chunks left has a place for the next one.
LEMMA NextPlace ==
  ASSUME TypeOK, NEW r \in Adds, Appending(r) PROVE appended[r] + 1 \in Places
<1>1. size[r] \in ChunkCounts \/ size[r] = 0
  BY DEF TypeOK
<1>2. appended[r] \in Nat /\ appended[r] < size[r]
  BY DEF TypeOK, Appending
<1>3. size[r] \in ChunkCounts
  BY <1>1, <1>2, SMT
<1>4. appended[r] + 1 \in 1 .. size[r]
  BY <1>2, SizesAreNat, SMT
<1>5. 1 .. size[r] \in {1 .. n : n \in ChunkCounts}
  BY <1>3, Zenon
<1> QED
  BY <1>4, <1>5, Zenon DEF Places

\* The rebuilt index is an index.
LEMMA ChunksOfType ==
  ASSUME NEW docs PROVE ChunksOf(docs) \in [Adds -> [Places -> Nat]]
BY SMT DEF ChunksOf

\* The program starts in a state of the invariant.
LEMMA InvInit == Init => Inv
<1> SUFFICES ASSUME Init PROVE Inv
  OBVIOUS
<1>1. (CHOOSE t \in Titles : TRUE) \in Titles
  BY ConstantsAssumption
<1>2. NoDocuments \in Library
  BY ConstantsAssumption, SMT DEF NoDocuments, Library
<1>3. NoChunks \in [Adds -> [Places -> Nat]]
  BY SMT DEF NoChunks
<1>4. TypeOK
  <2>1. file \in [is : {"absent", "damaged", "whole"}, docs : Library]
    BY <1>2, SMT DEF Init
  <2>2. title \in [Adds -> Titles]
    BY <1>1, SMT DEF Init
  <2>3. /\ size \in [Adds -> ChunkCounts \union {0}]
        /\ pc \in [Adds -> {"none", "append", "stored", "lost"}]
        /\ appended \in [Adds -> Nat]
        /\ \A r \in Adds : appended[r] <= size[r]
    BY SMT DEF Init
  <2>4. adds \in 0 .. MaxAdds /\ crashes \in 0 .. MaxCrashes
    BY ConstantsAssumption, SMT DEF Init
  <2> QED
    BY <1>2, <1>3, <2>1, <2>2, <2>3, <2>4 DEF Init, TypeOK, Phases
<1>5. Fresh
  BY SMT DEF Init, Fresh, NoChunks
<1>6. Stored
  BY SMT DEF Init, Stored, AreStored, NoDocuments
<1> QED
  BY <1>4, <1>5, <1>6 DEF Init, Inv, NoOrphans, IndexIsKnowledge

-----------------------------------------------------------------------------
\* Every step preserves the types.
LEMMA TypeOKStep ==
  ASSUME TypeOK, Fresh, [Next]_vars PROVE TypeOK'
<1> USE DEF TypeOK, docVars, histVars
<1>1. ASSUME NEW t \in Titles, NEW n \in ChunkCounts, addText(t, n) PROVE TypeOK'
  <2>1. adds + 1 \in Adds /\ adds' \in 0 .. MaxAdds
    BY <1>1, ConstantsAssumption, SMT DEF addText, Adds
  <2>2. title' \in [Adds -> Titles]
    BY <1>1, <2>1, SMT DEF addText
  <2>3. size' \in [Adds -> ChunkCounts \union {0}]
    BY <1>1, <2>1, SMT DEF addText
  <2>4. pc' \in [Adds -> {"none", "append", "stored", "lost"}]
    BY <1>1, <2>1, SMT DEF addText
  <2>5. appended[adds + 1] = 0
    BY <2>1, SMT DEF Fresh
  <2>6. \A r \in Adds : appended[r] <= size'[r]
    BY <1>1, <2>1, <2>5, ConstantsAssumption, SMT DEF addText
  <2> QED
    BY <1>1, <2>1, <2>2, <2>3, <2>4, <2>6 DEF addText
<1>2. ASSUME NEW t \in Titles, removeDocument(t) PROVE TypeOK'
  <2>1. knowledgeBase' \in Library
    BY <1>2, ConstantsAssumption, SMT DEF removeDocument, Library, EmitLocked
  <2>2. documentChunks' \in [Adds -> [Places -> Nat]]
    BY <1>2, SMT DEF removeDocument, NoChunks, EmitLocked
  <2>3. mixed' \subseteq Titles
    BY <1>2, SMT DEF removeDocument, EmitLocked
  <2> QED
    BY <1>2, <2>1, <2>2, <2>3, SMT DEF removeDocument, EmitLocked, Phases
<1>3. CASE clearKnowledgeBase
  <2>1. NoDocuments \in Library
    BY ConstantsAssumption, SMT DEF NoDocuments, Library
  <2>2. NoChunks \in [Adds -> [Places -> Nat]]
    BY SMT DEF NoChunks
  <2>3. mixed' \subseteq Titles
    BY <1>3, SMT DEF clearKnowledgeBase, EmitLocked
  <2> QED
    BY <1>3, <2>1, <2>2, <2>3, SMT DEF clearKnowledgeBase, EmitLocked, Phases
<1>4. CASE saveKnowledgeBase
  BY <1>4, SMT DEF saveKnowledgeBase, Phases
<1>5. CASE writeFile
  BY <1>5, SMT DEF writeFile, AfterSave, Phases
<1>6. CASE writeFileFails
  <2>1. NoDocuments \in Library
    BY ConstantsAssumption, SMT DEF NoDocuments, Library
  <2> QED
    BY <1>6, <2>1, SMT DEF writeFileFails, AfterSave, Phases
<1>7. CASE loadKnowledgeBase
  <2>1. mixed' \subseteq Titles
    BY <1>7, SMT DEF loadKnowledgeBase
  <2> QED
    BY <1>7, <2>1, ChunksOfType, SMT DEF loadKnowledgeBase
<1>8. ASSUME NEW docs \in Library, Construct(docs) PROVE
        /\ phase' \in Phases
        /\ knowledgeBase' \in Library
        /\ documentChunks' \in [Adds -> [Places -> Nat]]
        /\ mixed' \subseteq Titles
        /\ pc' \in [Adds -> {"none", "append", "stored", "lost"}]
  BY <1>8, ChunksOfType, SMT DEF Construct, Phases, InProcess
<1>h. ASSUME NEW docs, Construct(docs) PROVE hasty' \in BOOLEAN
  BY <1>h DEF Construct
<1>9. NoDocuments \in Library
  BY ConstantsAssumption, SMT DEF NoDocuments, Library
<1>10. CASE start
  <2>1. CASE file.is = "whole"
    <3>1. Construct(file.docs)
      BY <1>10, <2>1 DEF start
    <3> QED
      BY <1>8, <1>h, <1>10, <3>1 DEF start, Construct
  <2>2. CASE file.is # "whole"
    <3>1. Construct(NoDocuments)
      BY <1>10, <2>2 DEF start
    <3> QED
      BY <1>8, <1>9, <1>h, <1>10, <3>1 DEF start, Construct
  <2> QED
    BY <2>1, <2>2
<1>11. CASE startUnreadable
  <2>1. Construct(NoDocuments)
    BY <1>11 DEF startUnreadable
  <2> QED
    BY <1>8, <1>9, <1>h, <1>11, <2>1, Zenon DEF startUnreadable, Construct
<1>12. CASE destroy
  BY <1>12, SMT DEF destroy, Phases
<1>13. CASE destroyRefused
  BY <1>13, SMT DEF destroyRefused, Phases, EmitLocked
<1>14. CASE crash
  <2>1. pc' \in [Adds -> {"none", "append", "stored", "lost"}]
    BY <1>14, SMT DEF crash, InProcess
  <2>2. file' \in [is : {"absent", "damaged", "whole"}, docs : Library]
    BY <1>9, <1>14, SMT DEF crash
  <2>3. crashes' \in 0 .. MaxCrashes /\ phase' \in Phases
    BY <1>14, ConstantsAssumption, SMT DEF crash, Phases
  <2>4. damaged' \in BOOLEAN
    BY <1>14, Zenon DEF crash
  <2> QED
    BY <1>14, <2>1, <2>2, <2>3, <2>4 DEF crash
<1>15. ASSUME NEW r \in Adds, appendChunk(r) PROVE TypeOK'
  <2>1. documentChunks' \in [Adds -> [Places -> Nat]]
    <3>1. appended[r] + 1 \in Places
      BY <1>15, NextPlace DEF appendChunk
    <3> DEFINE k == appended[r] + 1
               row == [documentChunks[r] EXCEPT ![k] = documentChunks[r][k] + 1]
    <3>2. documentChunks' = [documentChunks EXCEPT ![r] = row]
      BY <1>15, SMT DEF appendChunk
    <3>3. documentChunks[r] \in [Places -> Nat]
      OBVIOUS
    <3>4. row \in [Places -> Nat]
      BY <3>1, <3>3, SMT
    <3> HIDE DEF row
    <3> QED
      BY <3>2, <3>4, SMT
  <2>2. size[r] \in Nat
    BY SizesAreNat
  <2>3. appended' = [appended EXCEPT ![r] = appended[r] + 1]
    BY <1>15, SMT DEF appendChunk
  <2>4. appended' \in [Adds -> Nat]
    BY <2>3, SMT
  <2>5. appended[r] < size[r]
    BY <1>15 DEF appendChunk, Appending
  <2>6. \A s \in Adds : appended'[s] <= size[s]
    BY <2>2, <2>3, <2>5, SMT
  <2> QED
    BY <1>15, <2>1, <2>4, <2>6 DEF appendChunk
<1>16. ASSUME NEW r \in Adds, storeDocument(r) PROVE TypeOK'
  <2>1. r \in 0 .. MaxAdds
    BY ConstantsAssumption, SMT DEF Adds
  <2>2. knowledgeBase' \in Library
    BY <1>16, <2>1, SMT DEF storeDocument, Library
  <2>3. pc' \in [Adds -> {"none", "append", "stored", "lost"}]
    BY <1>16, SMT DEF storeDocument
  <2>4. mixed' \subseteq Titles
    BY <1>16, SMT DEF storeDocument
  <2> QED
    BY <1>16, <2>2, <2>3, <2>4 DEF storeDocument
<1>17. CASE undefinedBehaviour
  <2>1. hasty' \in BOOLEAN
    BY <1>17, Zenon DEF undefinedBehaviour
  <2> QED
    BY <1>17, <2>1 DEF undefinedBehaviour
<1>18. CASE refuse \/ UNCHANGED vars
  BY <1>18, SMT DEF vars, refuse, EmitLocked, Phases
<1> QED
  BY <1>1, <1>2, <1>3, <1>4, <1>5, <1>6, <1>7, <1>10, <1>11, <1>12, <1>13,
     <1>14, <1>15, <1>16, <1>17, <1>18
  DEF Next, Edit, Persist, Process, Worker, processDocumentAsync

-----------------------------------------------------------------------------
\* Every step preserves the bookkeeping.
LEMMA FreshStep ==
  ASSUME TypeOK, Fresh, Stored, [Next]_vars PROVE Fresh'
<1> USE DEF docVars, histVars
<1>0. ASSUME UNCHANGED <<adds, pc, appended, documentChunks>> PROVE Fresh'
  BY <1>0 DEF Fresh
<1>1. ASSUME NEW t \in Titles, NEW n \in ChunkCounts, addText(t, n) PROVE Fresh'
  BY <1>1, ConstantsAssumption, SMT DEF addText, Fresh, TypeOK, Adds
<1>2. ASSUME NEW t \in Titles, removeDocument(t) PROVE Fresh'
  BY <1>2, SMT DEF removeDocument, Fresh, NoChunks, TypeOK, EmitLocked
<1>3. CASE clearKnowledgeBase
  BY <1>3, SMT DEF clearKnowledgeBase, Fresh, NoChunks, EmitLocked
<1>4. ASSUME NEW docs, AreStored(docs), documentChunks' = ChunksOf(docs),
             UNCHANGED <<adds, appended>>,
             \A r \in Adds : pc[r] # "none" <=> pc'[r] # "none",
             \A r \in Adds : pc[r] = "none" => pc'[r] = "none"
      PROVE  Fresh'
  <2>1. ASSUME NEW r \in Adds, NEW i \in Places, pc[r] = "none"
        PROVE  documentChunks'[r][i] = 0
    <3>1. title[r] \in Titles /\ r # 0
      BY SMT DEF TypeOK, Adds
    <3>2. docs[title[r]] # r
      BY <1>4, <2>1, <3>1, SMT DEF AreStored
    <3> QED
      BY <1>4, <3>2, SMT DEF ChunksOf
  <2> QED
    BY <1>4, <2>1 DEF Fresh
<1>5. CASE loadKnowledgeBase
  BY <1>4, <1>5 DEF loadKnowledgeBase, Stored
<1>6. ASSUME NEW docs, AreStored(docs), Construct(docs) PROVE Fresh'
  <2>1. \A r \in Adds : pc[r] # "none" <=> pc'[r] # "none"
    BY <1>6, SMT DEF Construct, InProcess
  <2>2. \A r \in Adds : pc[r] = "none" => pc'[r] = "none"
    BY <2>1
  <2>3. documentChunks' = ChunksOf(docs) /\ UNCHANGED <<adds, appended>>
    BY <1>6 DEF Construct
  <2> QED
    BY <1>4, <1>6, <2>1, <2>2, <2>3
<1>7. AreStored(NoDocuments)
  BY SMT DEF AreStored, NoDocuments
<1>8. CASE start
  <2>1. \E docs : AreStored(docs) /\ Construct(docs)
    BY <1>7, <1>8 DEF start, Stored
  <2> QED
    BY <1>6, <2>1
<1>9. CASE startUnreadable
  BY <1>6, <1>7, <1>9 DEF startUnreadable
<1>10. CASE crash
  <2>1. \A r \in Adds : (pc'[r] = "none" <=> pc[r] = "none")
    BY <1>10, SMT DEF crash, InProcess
  <2>2. UNCHANGED <<adds, appended, documentChunks>>
    BY <1>10 DEF crash
  <2> QED
    BY <2>1, <2>2 DEF Fresh
<1>11. ASSUME NEW r \in Adds, appendChunk(r) PROVE Fresh'
  BY <1>11, SMT DEF appendChunk, Appending, InProcess, Fresh, TypeOK
<1>12. ASSUME NEW r \in Adds, storeDocument(r) PROVE Fresh'
  BY <1>12, SMT DEF storeDocument, InProcess, Fresh, TypeOK
<1>13. CASE saveKnowledgeBase \/ writeFile \/ writeFileFails \/ destroy
            \/ destroyRefused \/ undefinedBehaviour \/ refuse \/ UNCHANGED vars
  BY <1>0, <1>13 DEF saveKnowledgeBase, writeFile, writeFileFails, destroy,
     destroyRefused, undefinedBehaviour, vars, refuse, EmitLocked
<1> QED
  BY <1>1, <1>2, <1>3, <1>5, <1>8, <1>9, <1>10, <1>11, <1>12, <1>13
  DEF Next, Edit, Persist, Process, Worker, processDocumentAsync

LEMMA StoredStep ==
  ASSUME TypeOK, Fresh, Stored, [Next]_vars PROVE Stored'
<1> USE DEF docVars, histVars
<1>a. AreStored(NoDocuments) /\ AreStored(knowledgeBase) /\ AreStored(file.docs)
  BY SMT DEF AreStored, NoDocuments, Stored
<1>b. \A t \in Titles : knowledgeBase[t] \in 0 .. MaxAdds
                        /\ file.docs[t] \in 0 .. MaxAdds
  BY DEF TypeOK, Library
<1>0. ASSUME UNCHANGED <<title, pc>>,
             knowledgeBase' \in {NoDocuments, knowledgeBase, file.docs},
             file'.docs \in {NoDocuments, knowledgeBase, file.docs}
      PROVE  Stored'
  BY <1>0, <1>a DEF Stored, AreStored
<1>1. ASSUME NEW t \in Titles, NEW n \in ChunkCounts, addText(t, n) PROVE Stored'
  BY <1>1, <1>a, <1>b, ConstantsAssumption, SMT
  DEF addText, Fresh, TypeOK, Adds, Stored, AreStored
<1>2. ASSUME NEW t \in Titles, removeDocument(t) PROVE Stored'
  BY <1>2, <1>a, <1>b, SMT DEF removeDocument, Stored, AreStored, TypeOK, Library,
     EmitLocked
<1>3. CASE clearKnowledgeBase \/ loadKnowledgeBase
  BY <1>0, <1>3 DEF clearKnowledgeBase, loadKnowledgeBase, EmitLocked
<1>4. ASSUME \A r \in Adds : pc[r] = "stored" => pc'[r] = "stored",
             UNCHANGED title,
             knowledgeBase' \in {NoDocuments, knowledgeBase, file.docs},
             file'.docs \in {NoDocuments, knowledgeBase, file.docs}
      PROVE  Stored'
  <2>1. ASSUME NEW docs \in {NoDocuments, knowledgeBase, file.docs},
               NEW t \in Titles, docs[t] # 0
        PROVE  title'[docs[t]] = t /\ pc'[docs[t]] = "stored"
    <3>1. AreStored(docs)
      BY <1>a, <2>1
    <3>2. NoDocuments[t] = 0
      BY DEF NoDocuments
    <3>3. docs[t] \in Adds
      BY <1>b, <2>1, <3>2, SMT DEF Adds
    <3> QED
      BY <1>4, <2>1, <3>1, <3>3 DEF AreStored
  <2> QED
    BY <1>4, <2>1 DEF Stored, AreStored
<1>5. ASSUME NEW docs \in {NoDocuments, file.docs}, Construct(docs) PROVE Stored'
  <2>1. \A r \in Adds : pc[r] = "stored" => pc'[r] = "stored"
    BY <1>5, SMT DEF Construct, InProcess
  <2> QED
    BY <1>4, <1>5, <2>1 DEF Construct
<1>6. CASE start
  <2>1. \E docs \in {NoDocuments, file.docs} : Construct(docs)
    BY <1>6 DEF start
  <2> QED
    BY <1>5, <2>1
<1>7. CASE startUnreadable
  BY <1>5, <1>7 DEF startUnreadable
<1>8. CASE crash
  <2>1. \A r \in Adds : pc[r] = "stored" => pc'[r] = "stored"
    BY <1>8, SMT DEF crash, InProcess
  <2>2. file'.docs \in {NoDocuments, knowledgeBase, file.docs}
    BY <1>8, SMT DEF crash
  <2> QED
    BY <1>4, <1>8, <2>1, <2>2 DEF crash
<1>9. CASE saveKnowledgeBase \/ destroy
  <2>1. file'.docs = file.docs
    BY <1>9, SMT DEF saveKnowledgeBase, destroy, TypeOK
  <2> QED
    BY <1>0, <1>9, <2>1 DEF saveKnowledgeBase, destroy
<1>10. CASE writeFile \/ writeFileFails
  <2>1. file'.docs \in {NoDocuments, knowledgeBase}
    BY <1>10, SMT DEF writeFile, writeFileFails
  <2> QED
    BY <1>0, <1>10, <2>1 DEF writeFile, writeFileFails
<1>11. ASSUME NEW r \in Adds, appendChunk(r) PROVE Stored'
  BY <1>0, <1>11 DEF appendChunk
<1>12. ASSUME NEW r \in Adds, storeDocument(r) PROVE Stored'
  <2>1. UNCHANGED <<title, file>> /\ pc' = [pc EXCEPT ![r] = "stored"]
    BY <1>12 DEF storeDocument
  <2>2. knowledgeBase' = [knowledgeBase EXCEPT ![title[r]] = r]
    BY <1>12 DEF storeDocument
  <2>3. \A s \in Adds : pc'[s] = "stored" <=> (s = r \/ pc[s] = "stored")
    BY <2>1, SMT DEF TypeOK
  <2>4. AreStored(file.docs)'
    BY <1>a, <1>b, <2>1, <2>3, SMT DEF AreStored, Adds
  <2>5. AreStored(knowledgeBase)'
    BY <1>a, <1>b, <2>1, <2>2, <2>3, SMT DEF AreStored, Adds, TypeOK, Library
  <2> QED
    BY <2>1, <2>4, <2>5 DEF Stored, AreStored
<1>13. CASE destroyRefused \/ undefinedBehaviour \/ refuse \/ UNCHANGED vars
  BY <1>0, <1>13 DEF destroyRefused, undefinedBehaviour, vars, refuse, EmitLocked
<1> QED
  BY <1>1, <1>2, <1>3, <1>6, <1>7, <1>8, <1>9, <1>10, <1>11, <1>12, <1>13
  DEF Next, Edit, Persist, Process, Worker, processDocumentAsync

-----------------------------------------------------------------------------
\* A chunk rebuilt is one of the document under its title.
LEMMA ChunkOf ==
  ASSUME NEW docs, NEW r \in Adds, NEW i \in Places
  PROVE  ChunksOf(docs)[r][i] = IF docs[title[r]] = r /\ i <= size[r] THEN 1 ELSE 0
BY SMT DEF ChunksOf

\* No step leaves an orphan in the index.
LEMMA NoOrphansStep ==
  ASSUME TypeOK, Fresh, Stored, NoOrphans, [Next]_vars PROVE NoOrphans'
<1> USE DEF docVars, histVars
<1>0. ASSUME UNCHANGED <<knowledgeBase, documentChunks, title, pc>>,
             phase # "closed" \/ phase' = "closed"
      PROVE  NoOrphans'
  BY <1>0 DEF NoOrphans, InProcess
<1>1. ASSUME NEW t \in Titles, NEW n \in ChunkCounts, addText(t, n)
      PROVE  NoOrphans'
  <2>1. adds + 1 \in Adds /\ pc[adds + 1] = "none"
    BY <1>1, ConstantsAssumption, SMT DEF addText, TypeOK, Adds, Fresh
  <2>2. pc'[adds + 1] = "append"
    BY <1>1, <2>1, SMT DEF addText, TypeOK
  <2>3. \A r \in Adds : r # adds + 1 => title'[r] = title[r] /\ pc'[r] = pc[r]
    BY <1>1, <2>1, SMT DEF addText, TypeOK
  <2>4. UNCHANGED <<knowledgeBase, documentChunks, phase>>
    BY <1>1 DEF addText
  <2> QED
    BY <2>2, <2>3, <2>4 DEF NoOrphans, InProcess
<1>2. ASSUME NEW t \in Titles, removeDocument(t) PROVE NoOrphans'
  BY <1>2, SMT DEF removeDocument, Calling, NoOrphans, NoChunks, InProcess, TypeOK, Library,
     EmitLocked
<1>3. CASE clearKnowledgeBase
  BY <1>3, SMT DEF clearKnowledgeBase, NoOrphans, NoChunks, EmitLocked
<1>4. ASSUME NEW docs, knowledgeBase' = docs, documentChunks' = ChunksOf(docs),
             title' = title
      PROVE  NoOrphans'
  <2>1. ASSUME NEW r \in Adds, NEW i \in Places, documentChunks'[r][i] > 0
        PROVE  knowledgeBase'[title'[r]] # 0
    BY <1>4, <2>1, ChunkOf, SMT DEF Adds
  <2> QED
    BY <2>1 DEF NoOrphans
<1>5. CASE loadKnowledgeBase
  BY <1>4, <1>5 DEF loadKnowledgeBase
<1>6. CASE start \/ startUnreadable
  <2>1. \E docs : Construct(docs)
    BY <1>6 DEF start, startUnreadable
  <2> QED
    BY <1>4, <2>1 DEF Construct
<1>7. CASE crash
  BY <1>7 DEF crash, NoOrphans
<1>8. ASSUME NEW r \in Adds, appendChunk(r) PROVE NoOrphans'
  <2>1. appended[r] + 1 \in Places /\ InProcess(r)
    BY <1>8, NextPlace DEF appendChunk, Appending
  <2>2. \A s \in Adds, i \in Places :
          s # r => documentChunks'[s][i] = documentChunks[s][i]
    BY <1>8, <2>1, SMT DEF appendChunk, TypeOK
  <2>3. UNCHANGED <<knowledgeBase, title, pc, phase>>
    BY <1>8 DEF appendChunk
  <2> QED
    BY <2>1, <2>2, <2>3 DEF NoOrphans, InProcess
<1>9. ASSUME NEW r \in Adds, storeDocument(r) PROVE NoOrphans'
  <2>1. \A s \in Adds : s # r => (InProcess(s)' <=> InProcess(s))
    BY <1>9, SMT DEF storeDocument, InProcess, TypeOK
  <2>2. title[r] \in Titles /\ r # 0
    BY SMT DEF TypeOK, Adds
  <2>3. /\ knowledgeBase'[title[r]] # 0
        /\ \A t \in Titles : knowledgeBase[t] # 0 => knowledgeBase'[t] # 0
    BY <1>9, <2>2, SMT DEF storeDocument, TypeOK, Library
  <2>4. UNCHANGED <<documentChunks, title, phase>>
    BY <1>9 DEF storeDocument
  <2>5. \A s \in Adds : title[s] \in Titles
    BY DEF TypeOK
  <2> QED
    BY <2>1, <2>3, <2>4, <2>5 DEF NoOrphans
<1>10. CASE saveKnowledgeBase \/ destroy
  BY <1>0, <1>10 DEF saveKnowledgeBase, destroy, Calling
<1>11. CASE writeFile \/ writeFileFails
  BY <1>0, <1>11 DEF writeFile, writeFileFails
<1>12. CASE destroyRefused \/ undefinedBehaviour \/ refuse \/ UNCHANGED vars
  BY <1>0, <1>12 DEF destroyRefused, undefinedBehaviour, vars, refuse, EmitLocked,
     Calling
<1> QED
  BY <1>1, <1>2, <1>3, <1>5, <1>6, <1>7, <1>8, <1>9, <1>10, <1>11, <1>12
  DEF Next, Edit, Persist, Process, Worker, processDocumentAsync

-----------------------------------------------------------------------------
\* IndexIsKnowledge for one document.
Indexed(r) ==
  title[r] \notin mixed => \A i \in Places :
    documentChunks[r][i] =
      IF InProcess(r) THEN IF i <= appended[r] THEN 1 ELSE 0
                      ELSE ChunksOf(knowledgeBase)[r][i]

LEMMA IndexedIs ==
  IndexIsKnowledge <=> (phase # "closed" => \A r \in Adds : Indexed(r))
BY DEF IndexIsKnowledge, Indexed

\* A document of which a step leaves nothing in the index nor in the
\* knowledge base.
LEMMA EmptyIndex ==
  ASSUME NEW r \in Adds,
         \A i \in Places : documentChunks'[r][i] = 0,
         InProcess(r)' /\ title'[r] \notin mixed' => appended'[r] = 0,
         knowledgeBase'[title'[r]] # r
  PROVE  Indexed(r)'
<1> SUFFICES ASSUME title'[r] \notin mixed', NEW i \in Places
             PROVE  documentChunks'[r][i] =
                      IF InProcess(r)' THEN IF i <= appended'[r] THEN 1 ELSE 0
                                       ELSE ChunksOf(knowledgeBase)'[r][i]
  BY DEF Indexed
<1>1. i \in Nat /\ i > 0
  BY PlacesArePositive, SMT
<1>2. ChunksOf(knowledgeBase)'[r][i] = 0
  BY SMT DEF ChunksOf
<1>3. CASE InProcess(r)'
  <2>1. ~(i <= appended'[r])
    BY <1>1, <1>3, SMT
  <2> QED
    BY <1>3, <2>1
<1>4. CASE ~InProcess(r)'
  BY <1>2, <1>4
<1> QED
  BY <1>3, <1>4

\* A document whose part of the state a step leaves alone.
LEMMA SameIndex ==
  ASSUME NEW r \in Adds, Indexed(r),
         title'[r] = title[r], size'[r] = size[r], appended'[r] = appended[r],
         documentChunks'[r] = documentChunks[r],
         InProcess(r)' <=> InProcess(r),
         knowledgeBase'[title[r]] = r <=> knowledgeBase[title[r]] = r,
         title[r] \in mixed => title[r] \in mixed'
  PROVE  Indexed(r)'
<1>1. \A i \in Places :
        ChunksOf(knowledgeBase)'[r][i] = ChunksOf(knowledgeBase)[r][i]
  BY SMT DEF ChunksOf
<1> QED
  BY <1>1 DEF Indexed

\* A document whose part of the index is rebuilt from documents `docs'.
LEMMA RebuiltIndex ==
  ASSUME NEW r \in Adds, NEW docs, TypeOK, AreStored(docs),
         knowledgeBase' = docs, documentChunks' = ChunksOf(docs),
         UNCHANGED <<title, size>>,
         InProcess(r)' => InProcess(r)
                          /\ (title[r] \notin mixed' => appended'[r] = 0)
  PROVE  Indexed(r)'
<1>1. ChunksOf(knowledgeBase)' = documentChunks'
  BY DEF ChunksOf
<1>2. CASE InProcess(r)'
  <2>1. pc[r] # "stored" /\ title[r] \in Titles /\ r # 0
    BY <1>2, SMT DEF InProcess, TypeOK, Adds
  <2>2. docs[title[r]] # r
    BY <2>1 DEF AreStored
  <2>3. \A i \in Places : documentChunks'[r][i] = 0
    BY <2>2, SMT DEF ChunksOf
  <2> QED
    BY <1>2, <2>2, <2>3, EmptyIndex
<1>3. CASE ~InProcess(r)'
  BY <1>1, <1>3 DEF Indexed
<1> QED
  BY <1>2, <1>3

\* The index follows the knowledge base through every step.
LEMMA IndexStep ==
  ASSUME Inv, [Next]_vars PROVE IndexIsKnowledge'
<1> SUFFICES ASSUME phase' # "closed", NEW r \in Adds PROVE Indexed(r)'
  BY DEF IndexIsKnowledge, Indexed
<1> USE DEF docVars, histVars
<1>a. TypeOK /\ Fresh /\ Stored /\ (phase # "closed" => Indexed(r))
  BY IndexedIs DEF Inv
<1>b. title[r] \in Titles /\ r # 0 /\ r \in Nat
  BY <1>a, ConstantsAssumption, SMT DEF TypeOK, Adds
<1>c. \A t \in Titles : AreStored(NoDocuments) /\ NoDocuments[t] = 0
  BY DEF AreStored, NoDocuments
<1>0. ASSUME phase # "closed",
             UNCHANGED <<title, size, appended, documentChunks, pc,
                         knowledgeBase, mixed>>
      PROVE  Indexed(r)'
  BY <1>0, <1>a, SameIndex DEF InProcess
<1>d. ASSUME InProcess(r), ~Unstored(title[r]) PROVE appended[r] = 0
  BY <1>a, <1>d, SMT DEF Unstored, TypeOK
<1>1. ASSUME NEW t \in Titles, NEW n \in ChunkCounts, addText(t, n)
      PROVE  Indexed(r)'
  <2>1. adds + 1 \in Adds
    BY <1>1, <1>a, ConstantsAssumption, SMT DEF addText, TypeOK, Adds
  <2>2. UNCHANGED <<knowledgeBase, documentChunks, appended, mixed>>
    BY <1>1 DEF addText
  <2>3. CASE r = adds + 1
    <3>1. pc[r] = "none"
      BY <1>a, <2>3, SMT DEF Fresh, TypeOK
    <3>2. appended'[r] = 0 /\ \A i \in Places : documentChunks'[r][i] = 0
      BY <1>a, <2>2, <3>1 DEF Fresh
    <3>3. \A u \in Titles : knowledgeBase[u] # r
      BY <1>a, <1>b, <3>1 DEF Stored, AreStored
    <3>4. title'[r] \in Titles
      BY <1>1, <1>a, <2>3, SMT DEF addText, TypeOK
    <3> QED
      BY <2>2, <3>2, <3>3, <3>4, EmptyIndex
  <2>4. CASE r # adds + 1
    <3>1. title'[r] = title[r] /\ size'[r] = size[r] /\ pc'[r] = pc[r]
      BY <1>1, <1>a, <2>1, <2>4, SMT DEF addText, TypeOK
    <3>2. phase # "closed"
      BY <1>1 DEF addText, Calling
    <3> QED
      BY <1>a, <2>2, <3>1, <3>2, SameIndex DEF InProcess
  <2> QED
    BY <2>3, <2>4
<1>2. ASSUME NEW t \in Titles, removeDocument(t) PROVE Indexed(r)'
  <2>1. UNCHANGED <<title, size, appended, pc>> /\ phase # "closed" /\ phase' # "closed"
    BY <1>2 DEF removeDocument, Calling, EmitLocked
  <2>2. CASE title[r] = t
    <3>1. \A i \in Places : documentChunks'[r][i] = 0
      BY <1>2, <2>2, SMT DEF removeDocument, NoChunks, EmitLocked
    <3>2. knowledgeBase'[title'[r]] # r
      BY <1>2, <1>a, <1>b, <2>1, <2>2, SMT DEF removeDocument, TypeOK, Library,
         EmitLocked
    <3>3. t \notin mixed' => ~Unstored(t)
      BY <1>2 DEF removeDocument, EmitLocked
    <3>4. InProcess(r)' /\ title'[r] \notin mixed' => appended'[r] = 0
      BY <1>d, <2>1, <2>2, <3>3 DEF InProcess
    <3> QED
      BY <3>1, <3>2, <3>4, EmptyIndex
  <2>3. CASE title[r] # t
    <3>1. documentChunks'[r] = documentChunks[r]
      BY <1>2, <2>3, SMT DEF removeDocument, EmitLocked
    <3>2. knowledgeBase'[title[r]] = knowledgeBase[title[r]]
      BY <1>2, <1>a, <1>b, <2>3, SMT DEF removeDocument, TypeOK, Library, EmitLocked
    <3>3. title[r] \in mixed => title[r] \in mixed'
      BY <1>2, <2>3 DEF removeDocument, EmitLocked
    <3> QED
      BY <1>a, <2>1, <3>1, <3>2, <3>3, SameIndex DEF InProcess
  <2> QED
    BY <2>2, <2>3
<1>3. CASE clearKnowledgeBase
  <2>1. UNCHANGED <<title, appended, pc>>
    BY <1>3 DEF clearKnowledgeBase, EmitLocked
  <2>2. \A i \in Places : documentChunks'[r][i] = 0
    BY <1>3, SMT DEF clearKnowledgeBase, NoChunks, EmitLocked
  <2>3. knowledgeBase'[title'[r]] # r
    BY <1>3, <1>b, <1>c, <2>1 DEF clearKnowledgeBase, EmitLocked
  <2>4. title[r] \notin mixed' => ~Unstored(title[r])
    BY <1>3, <1>b DEF clearKnowledgeBase, EmitLocked
  <2>5. InProcess(r)' /\ title'[r] \notin mixed' => appended'[r] = 0
    BY <1>d, <2>1, <2>4 DEF InProcess
  <2> QED
    BY <2>2, <2>3, <2>5, EmptyIndex
<1>4. CASE loadKnowledgeBase
  <2>1. AreStored(file.docs)
    BY <1>a DEF Stored
  <2>2. title[r] \notin mixed' => ~Unstored(title[r])
    BY <1>4, <1>b DEF loadKnowledgeBase
  <2>3. UNCHANGED <<title, size, appended, pc>>
    BY <1>4 DEF loadKnowledgeBase
  <2>4. InProcess(r)' => InProcess(r)
                         /\ (title[r] \notin mixed' => appended'[r] = 0)
    BY <1>d, <2>2, <2>3 DEF InProcess
  <2> QED
    BY <1>4, <1>a, <2>1, <2>3, <2>4, RebuiltIndex DEF loadKnowledgeBase
<1>5. CASE start \/ startUnreadable
  <2>1. PICK docs : AreStored(docs) /\ Construct(docs)
    BY <1>5, <1>a, <1>b, <1>c DEF start, startUnreadable, Stored
  <2>2. ~InProcess(r)'
    BY <2>1, SMT DEF Construct, InProcess
  <2> QED
    BY <1>a, <2>1, <2>2, RebuiltIndex DEF Construct
<1>6. ASSUME NEW s \in Adds, appendChunk(s) PROVE Indexed(r)'
  <2>1. UNCHANGED <<knowledgeBase, title, size, pc, mixed>> /\ phase # "closed"
    BY <1>6 DEF appendChunk, ObjectExists
  <2>2. appended[s] + 1 \in Places /\ InProcess(s)
    BY <1>6, <1>a, NextPlace DEF appendChunk, Appending
  <2>3. CASE r # s
    <3>1. documentChunks'[r] = documentChunks[r] /\ appended'[r] = appended[r]
      BY <1>6, <1>a, <2>3, SMT DEF appendChunk, TypeOK
    <3> QED
      BY <1>a, <2>1, <3>1, SameIndex DEF InProcess
  <2>4. CASE r = s
    <3>1. appended[r] \in Nat /\ appended'[r] = appended[r] + 1
      BY <1>6, <1>a, <2>4, SMT DEF appendChunk, TypeOK
    <3>2. \A i \in Places : documentChunks'[r][i] =
            IF i = appended[r] + 1 THEN documentChunks[r][i] + 1
                                   ELSE documentChunks[r][i]
      BY <1>6, <1>a, <2>2, <2>4, SMT DEF appendChunk, TypeOK
    <3>3. InProcess(r)' /\ InProcess(r)
      BY <2>1, <2>2, <2>4 DEF InProcess
    <3>4. SUFFICES ASSUME title[r] \notin mixed, NEW i \in Places
                   PROVE  documentChunks'[r][i] =
                            IF i <= appended'[r] THEN 1 ELSE 0
      BY <2>1, <3>3, <3>4 DEF Indexed
    <3>5. documentChunks[r][i] = IF i <= appended[r] THEN 1 ELSE 0
      BY <1>a, <2>1, <3>3, <3>4 DEF Indexed
    <3>6. i \in Nat
      BY PlacesArePositive, SMT
    <3> QED
      BY <3>1, <3>2, <3>5, <3>6, SMT
  <2> QED
    BY <2>3, <2>4
<1>7. ASSUME NEW s \in Adds, storeDocument(s) PROVE Indexed(r)'
  <2>1. /\ UNCHANGED <<documentChunks, title, size, appended, phase>>
        /\ phase # "closed"
    BY <1>7 DEF storeDocument, ObjectExists
  <2>2. title[s] \in Titles
    BY <1>a DEF TypeOK
  <2>3. \A t \in Titles :
          knowledgeBase'[t] = IF t = title[s] THEN s ELSE knowledgeBase[t]
    BY <1>7, <1>a, <2>2, SMT DEF storeDocument, TypeOK, Library
  <2>4. \A u \in Adds : pc'[u] = IF u = s THEN "stored" ELSE pc[u]
    BY <1>7, <1>a, SMT DEF storeDocument, TypeOK
  <2>5. /\ mixed \subseteq mixed'
        /\ knowledgeBase[title[s]] # 0 => title[s] \in mixed'
    BY <1>7 DEF storeDocument
  <2>6. CASE r # s
    <3>1. InProcess(r)' <=> InProcess(r)
      BY <2>4, <2>6 DEF InProcess
    <3>2. CASE title[r] \in mixed'
      BY <2>1, <3>2 DEF Indexed
    <3>3. CASE title[r] \notin mixed'
      <4>1. knowledgeBase'[title[r]] = r <=> knowledgeBase[title[r]] = r
        BY <1>b, <2>3, <2>5, <2>6, <3>3
      <4> QED
        BY <1>a, <2>1, <2>5, <3>1, <4>1, SameIndex
    <3> QED
      BY <3>2, <3>3
  <2>7. CASE r = s
    <3>1. InProcess(r) /\ ~InProcess(r)' /\ appended[r] = size[r]
      <4>1. InProcess(r) /\ ~(appended[r] < size[r]) /\ appended[r] <= size[r]
        BY <1>7, <1>a, <2>7 DEF storeDocument, Appending, TypeOK
      <4>2. size[r] \in Nat /\ appended[r] \in Nat
        BY <1>a, SizesAreNat DEF TypeOK
      <4> QED
        BY <2>4, <2>7, <4>1, <4>2, SMT DEF InProcess
    <3>2. \A i \in Places :
            ChunksOf(knowledgeBase)'[r][i] = IF i <= size[r] THEN 1 ELSE 0
      BY <2>1, <2>2, <2>3, <2>7, SMT DEF ChunksOf
    <3> QED
      BY <1>a, <2>1, <2>5, <3>1, <3>2 DEF Indexed
  <2> QED
    BY <2>6, <2>7
<1>8. CASE saveKnowledgeBase \/ writeFile \/ writeFileFails
  BY <1>0, <1>8 DEF saveKnowledgeBase, writeFile, writeFileFails, Calling
<1>9. CASE destroy \/ destroyRefused \/ crash
  BY <1>0, <1>9 DEF destroy, destroyRefused, crash, Calling, EmitLocked
<1>10. CASE undefinedBehaviour \/ refuse \/ UNCHANGED vars
  BY <1>0, <1>10 DEF undefinedBehaviour, vars, refuse, EmitLocked, Calling
<1> QED
  BY <1>1, <1>2, <1>3, <1>4, <1>5, <1>6, <1>7, <1>8, <1>9, <1>10
  DEF Next, Edit, Persist, Process, Worker, processDocumentAsync

-----------------------------------------------------------------------------
\* The invariant is inductive.
LEMMA InvStep == Inv /\ [Next]_vars => Inv'
BY TypeOKStep, FreshStep, StoredStep, NoOrphansStep, IndexStep DEF Inv

LEMMA Invariance == Spec => []Inv
BY InvInit, InvStep, PTL DEF Spec

\* Every reachable state is well typed, and no document has more chunks
\* appended than it has: for any number of documents, titles and chunks.
THEOREM TypeCorrect == Spec => []TypeOK
BY Invariance, PTL DEF Inv

\* Nothing can be retrieved of a document that was removed, cleared or
\* replaced by a load, in whatever order with the threads processing it.
THEOREM NothingOrphaned == Spec => []NoOrphans
BY Invariance, PTL DEF Inv

\* The index answers from the knowledge base, title by title, and returns to
\* it after a replacement or an interrupted processing.
THEOREM IndexFollows == Spec => []IndexIsKnowledge
BY Invariance, PTL DEF Inv

\* Both together: what can be retrieved is what is stored.
THEOREM IndexStaysTrue == Spec => []IndexIsTrue
BY NothingOrphaned, IndexFollows, PTL DEF IndexIsTrue

-----------------------------------------------------------------------------
\* Without haste at most one document is in process, and none once the
\* program is about to leave or has left.
AloneUnlessHasty ==
  ~hasty =>
    /\ \A r, s \in Adds : InProcess(r) /\ InProcess(s) => r = s
    /\ phase \in {"closing", "closed"} => ~SomeInProcess

Careful == fate = "running" => AloneUnlessHasty

LEMMA CarefulInit == Init => Careful /\ OnlyHasteIsUndefined
BY SMT DEF Init, Careful, AloneUnlessHasty, SomeInProcess, InProcess,
   OnlyHasteIsUndefined

LEMMA CarefulStep ==
  ASSUME TypeOK, Careful, [Next]_vars PROVE Careful'
<1> USE DEF docVars, histVars
<1> SUFFICES ASSUME fate' = "running" PROVE AloneUnlessHasty'
  BY DEF Careful
<1>a. fate = "running" /\ AloneUnlessHasty
  BY DEF Careful, Next, Edit, addText, removeDocument, clearKnowledgeBase,
     Persist, saveKnowledgeBase, writeFile, writeFileFails, loadKnowledgeBase,
     Process, start, startUnreadable, Construct, destroy, destroyRefused,
     crash, Worker, processDocumentAsync, appendChunk, storeDocument,
     undefinedBehaviour, vars, refuse, EmitLocked
<1>0. ASSUME \A r \in Adds : InProcess(r)' => InProcess(r),
             hasty => hasty',
             phase' \in {"closing", "closed"} => phase \in {"closing", "closed"}
      PROVE  AloneUnlessHasty'
  BY <1>0, <1>a DEF AloneUnlessHasty, SomeInProcess
<1>1. ASSUME NEW t \in Titles, NEW n \in ChunkCounts, addText(t, n)
      PROVE  AloneUnlessHasty'
  <2>1. phase' = "open" /\ (hasty' <=> hasty \/ SomeInProcess)
    BY <1>1 DEF addText, Calling
  <2>2. \A r \in Adds : InProcess(r)' => InProcess(r) \/ r = adds + 1
    BY <1>1, SMT DEF addText, InProcess, TypeOK
  <2> QED
    BY <1>a, <2>1, <2>2 DEF AloneUnlessHasty, SomeInProcess
<1>2. CASE destroy \/ destroyRefused
  <2>1. UNCHANGED pc /\ (hasty' <=> hasty \/ SomeInProcess)
    BY <1>2 DEF destroy, destroyRefused, EmitLocked
  <2> QED
    BY <2>1 DEF AloneUnlessHasty, SomeInProcess, InProcess
<1>3. CASE start \/ startUnreadable \/ crash
  <2>1. \A r \in Adds : ~InProcess(r)'
    BY <1>3, SMT DEF start, startUnreadable, Construct, crash, InProcess
  <2> QED
    BY <2>1 DEF AloneUnlessHasty, SomeInProcess
<1>4. ASSUME NEW s \in Adds, storeDocument(s) PROVE AloneUnlessHasty'
  <2>1. \A r \in Adds : InProcess(r)' => InProcess(r)
    BY <1>4, SMT DEF storeDocument, InProcess, TypeOK
  <2> QED
    BY <1>0, <1>4, <2>1 DEF storeDocument
<1>5. CASE writeFile \/ writeFileFails
  BY <1>0, <1>5 DEF writeFile, writeFileFails, AfterSave, InProcess
<1>6. CASE saveKnowledgeBase \/ clearKnowledgeBase \/ loadKnowledgeBase
            \/ (\E t \in Titles : removeDocument(t))
            \/ (\E r \in Adds : appendChunk(r)) \/ refuse \/ UNCHANGED vars
  BY <1>0, <1>6 DEF saveKnowledgeBase, clearKnowledgeBase, loadKnowledgeBase,
     removeDocument, appendChunk, vars, InProcess, refuse, EmitLocked
<1>7. ~undefinedBehaviour
  BY DEF undefinedBehaviour
<1> QED
  BY <1>1, <1>2, <1>3, <1>4, <1>5, <1>6, <1>7
  DEF Next, Edit, Persist, Process, Worker, processDocumentAsync

LEMMA HasteStep ==
  ASSUME Careful, OnlyHasteIsUndefined, [Next]_vars PROVE OnlyHasteIsUndefined'
<1> USE DEF docVars, histVars, OnlyHasteIsUndefined
<1>1. CASE undefinedBehaviour
  <2> SUFFICES ASSUME ~hasty' PROVE FALSE
    OBVIOUS
  <2>1. PICK r \in Adds : \/ MeetsAnother(r) /\ UNCHANGED hasty
                          \/ hasty' = TRUE
    BY <1>1, Zenon DEF undefinedBehaviour
  <2>2. MeetsAnother(r) /\ ~hasty /\ fate = "running"
    BY <1>1, <2>1 DEF undefinedBehaviour
  <2> QED
    BY <2>2 DEF Careful, AloneUnlessHasty, SomeInProcess, MeetsAnother, Appending
<1>2. CASE refuse \/ UNCHANGED vars
  BY <1>2 DEF vars, refuse, EmitLocked
<1>3. CASE fate' = "running"
  BY <1>3
<1>4. CASE fate = "running" /\ UNCHANGED fate
  BY <1>4
<1> QED
  BY <1>1, <1>2, <1>3, <1>4
  DEF Next, Edit, addText, removeDocument, clearKnowledgeBase, Calling,
     Persist, saveKnowledgeBase, writeFile, writeFileFails, loadKnowledgeBase,
     Process, start, startUnreadable, Construct, destroy, destroyRefused,
     crash, Worker, processDocumentAsync, appendChunk, storeDocument,
     ObjectExists, EmitLocked

\* Whatever is saved meanwhile and however the program ends, the threads meet
\* nobody, and no object that is gone, unless the owner was hasty.
THEOREM OnlyHasteIsDangerous == Spec => []OnlyHasteIsUndefined
<1>1. /\ TypeOK /\ Careful /\ [Next]_vars => Careful'
      /\ Careful /\ OnlyHasteIsUndefined /\ [Next]_vars => OnlyHasteIsUndefined'
  BY CarefulStep, HasteStep
<1> QED
  BY <1>1, CarefulInit, TypeCorrect, PTL DEF Spec

-----------------------------------------------------------------------------
\* A file that is no good holds nothing, unless the disk failed.
FileIsGood ==
  /\ file.is = "absent" => file.docs = NoDocuments
  /\ file.is = "damaged" /\ phase \notin {"saving", "closing"} => damaged

LEMMA FileInit == Init => FileIsGood
BY SMT DEF Init, FileIsGood

LEMMA FileStep ==
  ASSUME TypeOK, FileIsGood, [Next]_vars PROVE FileIsGood'
<1> USE DEF docVars, histVars, FileIsGood
<1>0. ASSUME UNCHANGED file, phase \notin {"saving", "closing"}, damaged => damaged'
      PROVE  FileIsGood'
  BY <1>0
<1>1. CASE saveKnowledgeBase \/ destroy
  BY <1>1, SMT DEF saveKnowledgeBase, destroy, TypeOK
<1>2. CASE writeFile \/ writeFileFails
  BY <1>2, SMT DEF writeFile, writeFileFails
<1>3. CASE start \/ startUnreadable
  BY <1>0, <1>3 DEF start, startUnreadable, Construct
<1>4. CASE crash
  <2>1. CASE phase \notin {"saving", "closing"}
    BY <1>0, <1>4, <2>1 DEF crash
  <2>2. CASE phase \in {"saving", "closing"}
    BY <1>4, <2>2, SMT DEF crash
  <2> QED
    BY <2>1, <2>2
<1>5. CASE Edit \/ loadKnowledgeBase \/ destroyRefused
  BY <1>0, <1>5 DEF Edit, addText, refuse, removeDocument, clearKnowledgeBase,
     loadKnowledgeBase, destroyRefused, Calling, EmitLocked
<1>6. ASSUME UNCHANGED <<file, phase, damaged>> PROVE FileIsGood'
  BY <1>6
<1>7. CASE (\E r \in Adds : Worker(r)) \/ undefinedBehaviour \/ UNCHANGED vars
  BY <1>6, <1>7 DEF Worker, processDocumentAsync, appendChunk, storeDocument,
     undefinedBehaviour, vars, refuse, EmitLocked
<1> QED
  BY <1>1, <1>2, <1>3, <1>4, <1>5, <1>7 DEF Next, Persist, Process

\* The knowledge base starts as its promise does.
LEMMA StoreInit == Init => Store!Init
BY SMT DEF Init, Store!Init, Store!Nothing, NoDocuments, SavedDocuments

\* Every step is one the promise allows, or none it can see.
LEMMA StoreStep ==
  ASSUME TypeOK, FileIsGood, [Next]_vars PROVE [Store!Next]_(Store!vars)
<1> USE DEF docVars, histVars
<1>1. CASE damaged'
  BY <1>1 DEF Store!Next
<1>2. CASE ~damaged'
  <2>1. ~damaged
    BY <1>2 DEF Next, Edit, addText, removeDocument, clearKnowledgeBase,
       Persist, saveKnowledgeBase, writeFile, writeFileFails,
       loadKnowledgeBase, Process, start, startUnreadable, Construct, destroy,
       destroyRefused, crash, Worker, processDocumentAsync, appendChunk,
       storeDocument, undefinedBehaviour, vars, refuse, EmitLocked
  <2>2. damaged' = damaged
    BY <1>2, <2>1 DEF Next, Edit, addText, removeDocument, clearKnowledgeBase,
       Persist, saveKnowledgeBase, writeFile, writeFileFails,
       loadKnowledgeBase, Process, start, startUnreadable, Construct, destroy,
       destroyRefused, crash, Worker, processDocumentAsync, appendChunk,
       storeDocument, undefinedBehaviour, vars, refuse, EmitLocked
  <2>a. UNCHANGED <<knowledgeBase, file, crashes>> /\ (phase' = phase \/ refuse)
        => UNCHANGED Store!vars
    BY <2>2 DEF Store!vars, SavedDocuments, refuse, EmitLocked, Calling
  <2>3. ASSUME UNCHANGED <<knowledgeBase, file, phase, crashes>>
        PROVE  UNCHANGED Store!vars
    BY <2>a, <2>3
  <2>4. CASE \/ \E t \in Titles, n \in ChunkCounts : addText(t, n)
             \/ \E r \in Adds : appendChunk(r)
             \/ undefinedBehaviour
             \/ refuse \/ UNCHANGED vars
    <3>1. CASE refuse
      BY <2>a, <3>1 DEF refuse
    <3>2. CASE ~refuse
      BY <2>3, <2>4, <3>2 DEF addText, appendChunk, undefinedBehaviour, vars
    <3> QED
      BY <3>1, <3>2
  <2>5. ASSUME NEW t \in Titles, removeDocument(t) PROVE Store!Next
    BY <2>1, <2>2, <2>5 DEF removeDocument, Calling, SavedDocuments,
       Store!Next, Store!Forget, EmitLocked
  <2>6. CASE clearKnowledgeBase
    BY <2>1, <2>2, <2>6 DEF clearKnowledgeBase, Calling, NoDocuments,
       SavedDocuments, Store!Next, Store!Forget, Store!Nothing, EmitLocked
  <2>7. CASE saveKnowledgeBase \/ destroy
    <3>1. file.is # "damaged" /\ phase = "open"
      BY <2>1, <2>7 DEF FileIsGood, saveKnowledgeBase, destroy, Calling
    <3>2. phase' \in {"saving", "closing"} /\ file'.docs = file.docs
      BY <2>7, SMT DEF saveKnowledgeBase, destroy, TypeOK
    <3>3. UNCHANGED <<knowledgeBase, crashes>>
      BY <2>7 DEF saveKnowledgeBase, destroy
    <3> QED
      BY <2>2, <3>1, <3>2, <3>3 DEF Store!vars, SavedDocuments
  <2>8. CASE writeFile
    <3>1. file'.is = "whole" /\ file'.docs = knowledgeBase
      BY <2>8, SMT DEF writeFile
    <3>2. SavedDocuments' = knowledgeBase
      BY <3>1 DEF SavedDocuments
    <3> QED
      BY <2>1, <2>2, <2>8, <3>2 DEF writeFile, AfterSave, Store!Next,
         Store!Save, Store!Exit
  <2>9. CASE loadKnowledgeBase
    BY <2>1, <2>2, <2>9 DEF loadKnowledgeBase, Calling, SavedDocuments,
       Store!Next, Store!Revert
  <2>10. CASE start
    <3>1. file.is # "damaged"
      BY <2>1, <2>10 DEF FileIsGood, start, Construct
    <3>2. SavedDocuments = file.docs /\ SavedDocuments' = file.docs
      BY <2>10, <3>1 DEF start, Construct, SavedDocuments
    <3>3. file.is # "whole" => file.docs = NoDocuments
      BY <3>1, SMT DEF FileIsGood, TypeOK
    <3>4. knowledgeBase' = file.docs
      BY <2>10, <3>3 DEF start, Construct
    <3> QED
      BY <2>1, <2>2, <2>10, <3>2, <3>4 DEF start, Construct, Store!Next,
         Store!Start
  <2>11. CASE crash
    <3>1. phase \in {"open", "stuck"} /\ UNCHANGED file
      BY <1>2, <2>11 DEF crash, TypeOK, Phases
    <3>2. SavedDocuments' = SavedDocuments
      BY <2>11, <3>1 DEF crash, SavedDocuments
    <3> QED
      BY <2>1, <2>2, <2>11, <3>1, <3>2 DEF crash, Store!Next, Store!Crash
  <2>12. ASSUME NEW r \in Adds, storeDocument(r) PROVE Store!Next
    <3>1. title[r] \in Titles
      BY DEF TypeOK
    <3> QED
      BY <2>1, <2>2, <2>12, <3>1 DEF storeDocument, SavedDocuments,
         Store!Next, Store!Learn
  <2>13. CASE writeFileFails \/ startUnreadable \/ destroyRefused
    BY <1>2, <2>13 DEF writeFileFails, startUnreadable, destroyRefused, EmitLocked
  <2> QED
    BY <2>4, <2>5, <2>6, <2>7, <2>8, <2>9, <2>10, <2>11, <2>12, <2>13
    DEF Next, Edit, Persist, Process, Worker, processDocumentAsync
<1> QED
  BY <1>1, <1>2

\* Up to the first failure of the disk, the program does nothing to the
\* documents but what KnowledgeStore says: a clean exit keeps all that were
\* stored, a crash those saved last.
THEOREM KnowledgeKept == Spec => KeepsKnowledge
<1>1. Spec => [](TypeOK /\ FileIsGood)
  <2>1. TypeOK /\ FileIsGood /\ [Next]_vars => FileIsGood'
    BY FileStep
  <2> QED
    BY <2>1, FileInit, TypeCorrect, PTL DEF Spec
<1>2. TypeOK /\ FileIsGood /\ [Next]_vars => [Store!Next]_(Store!vars)
  BY StoreStep
<1> QED
  BY <1>1, <1>2, StoreInit, PTL DEF Spec, KeepsKnowledge, Store!Spec

=============================================================================
