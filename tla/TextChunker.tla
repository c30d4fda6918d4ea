----------------------------- MODULE TextChunker ----------------------------
(***************************************************************************)
(* chunkText (rag_system.cpp): the sentences of a document are packed into *)
(* chunks of at most chunkSize characters.  A sentence is its length after *)
(* trimming; a chunk is the places of its sentences in the text, and the   *)
(* length of its string, in which spaces join them.                        *)
(***************************************************************************)
EXTENDS Naturals, Sequences

CONSTANTS ChunkSizes, MaxSentences, MaxLength

ConstantsAssumption ==
  ChunkSizes \subseteq Nat /\ MaxSentences \in Nat /\ MaxLength \in Nat

VARIABLES chunkSize, sentences, \* the arguments, split and trimmed
          chunks, currentChunk, \* the locals
          taken                 \* how many sentences the loop has taken

chunkVars == <<chunkSize, sentences, chunks, currentChunk, taken>>

Chunk == [sentences : Seq(Nat), length : Nat]
NoText == [sentences |-> <<>>, length |-> 0]

TypeOK ==
  /\ chunkSize \in ChunkSizes
  /\ sentences \in Seq(0 .. MaxLength)
  /\ chunks \in Seq(Chunk) /\ currentChunk \in Chunk
  /\ taken \in 0 .. Len(sentences)

Init ==
  /\ chunkSize \in ChunkSizes
  /\ sentences \in UNION {[1 .. n -> 0 .. MaxLength] : n \in 0 .. MaxSentences}
  /\ chunks = <<>> /\ currentChunk = NoText /\ taken = 0

\* The chunk's string with the sentence appended, after a space if need be.
Joined(c, i) ==
  [sentences |-> Append(c.sentences, i),
   length |-> IF c.length = 0 THEN sentences[i] ELSE c.length + 1 + sentences[i]]

\* A chunk that has any text is appended.
Flushed == IF currentChunk.length = 0 THEN chunks ELSE Append(chunks, currentChunk)

\* One more character is asked for than needed when the chunk is still empty.
Fits(i) == currentChunk.length + sentences[i] + 1 <= chunkSize

\* Defect of takeSentence: a sentence that does not fit is lost with the flush.
takeSentenceLosing ==
  /\ taken < Len(sentences) /\ taken' = taken + 1
  /\ LET i == taken + 1 IN
     \/ sentences[i] = 0 /\ UNCHANGED <<chunks, currentChunk>>
     \/ sentences[i] > 0 /\ Fits(i) /\ currentChunk' = Joined(currentChunk, i) /\ UNCHANGED chunks
     \/ sentences[i] > 0 /\ ~Fits(i) /\ chunks' = Flushed /\ currentChunk' = NoText
  /\ UNCHANGED <<chunkSize, sentences>>

\* Sentences that are empty after trimming are skipped.
takeSentence ==
  /\ taken < Len(sentences) /\ taken' = taken + 1
  /\ LET i == taken + 1 IN
     \/ sentences[i] = 0 /\ UNCHANGED <<chunks, currentChunk>>
     \/ sentences[i] > 0 /\ Fits(i) /\ currentChunk' = Joined(currentChunk, i) /\ UNCHANGED chunks
     \/ sentences[i] > 0 /\ ~Fits(i) /\ chunks' = Flushed /\ currentChunk' = Joined(NoText, i)
  /\ UNCHANGED <<chunkSize, sentences>>

\* After the loop what is left becomes the last chunk.
finish ==
  /\ taken = Len(sentences) /\ currentChunk.length > 0
  /\ chunks' = Flushed /\ currentChunk' = NoText
  /\ UNCHANGED <<chunkSize, sentences, taken>>

Next == takeSentence \/ finish

-----------------------------------------------------------------------------
\* The chunks if the text ended here.
AllChunks == Flushed

\* The i-th chunk has the sentence s of the text.
Has(i, s) == \E k \in DOMAIN AllChunks[i].sentences : AllChunks[i].sentences[k] = s

InOrder(c) == \A k, l \in DOMAIN c.sentences : k < l => c.sentences[k] < c.sentences[l]

\* Every sentence that is not empty is in one chunk, and chunks keep the order
\* of the text: what is retrieved later is all that was in the document.
SentencesKept ==
  /\ \A s \in 1 .. taken : sentences[s] > 0 => \E i \in DOMAIN AllChunks : Has(i, s)
  /\ \A i \in DOMAIN AllChunks : InOrder(AllChunks[i])
  /\ \A i, j \in DOMAIN AllChunks : i < j =>
       \A s, u \in 1 .. taken : Has(i, s) /\ Has(j, u) => s < u

\* A chunk is too long only if it is one sentence, and two neighbouring chunks
\* would not have fitted into one.
ChunksAreTight ==
  /\ \A i \in DOMAIN AllChunks :
       AllChunks[i].length <= chunkSize \/ Len(AllChunks[i].sentences) = 1
  /\ \A i \in 1 .. Len(AllChunks) - 1 :
       AllChunks[i].length + 1 + sentences[Head(AllChunks[i + 1].sentences)] > chunkSize

=============================================================================
