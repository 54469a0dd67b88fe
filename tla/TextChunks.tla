------------------------------ MODULE TextChunks ------------------------------
(***************************************************************************)
(* chunk_text of app/tools/embedder.py: a text is cut into pieces of       *)
(* words, each beginning some words before the last one ended.  The words  *)
(* are known by their places.                                              *)
(***************************************************************************)
EXTENDS Integers, Sequences

CONSTANTS
  ChunkSize,    \* chunk_size and
  Overlap,      \* overlap, both in tokens
  MaxWords      \* bound: the longest text

words_per_chunk == (3 * ChunkSize) \div 4
overlap_words == (3 * Overlap) \div 4

ASSUME ChunksAssumption ==
  /\ ChunkSize \in Nat /\ Overlap \in Nat /\ MaxWords \in Nat
  /\ overlap_words < words_per_chunk

VARIABLES
  words,        \* number of words of the text
  start,        \* the place where the next chunk begins
  chunks,       \* the chunks cut so far, each with its first place and its end
  cutting       \* the loop goes on

chunksVars == <<words, start, chunks, cutting>>

ChunksInit ==
  /\ words \in 0..MaxWords
  /\ start = 0
  /\ chunks = << >>
  /\ cutting = (words > 0)

\* An operator <definition>_<change> is a mutated form of the one after it.

\* The slice words[start:end], which ends with the list.
Chunk == [from |-> start,
          end |-> IF start + words_per_chunk < words THEN start + words_per_chunk ELSE words]

\* One round of the loop.
CutChunk_Skips ==
  /\ cutting
  /\ chunks' = Append(chunks, Chunk)
  /\ cutting' = (start + words_per_chunk < words)
  /\ start' = start + words_per_chunk + overlap_words
  /\ UNCHANGED words
CutChunk ==
  /\ cutting
  /\ chunks' = Append(chunks, Chunk)
  /\ cutting' = (start + words_per_chunk < words)
  /\ start' = IF cutting' THEN start + words_per_chunk - overlap_words ELSE start
  /\ UNCHANGED words

ChunksNext == CutChunk

ChunksSpec == ChunksInit /\ [][ChunksNext]_chunksVars

-----------------------------------------------------------------------------
(***************************************************************************)
(* Properties.                                                             *)
(***************************************************************************)

ChunksTypeOK ==
  /\ words \in 0..MaxWords
  /\ start \in Nat
  /\ chunks \in Seq([from : 0..(words - 1), end : 1..words])
  /\ cutting \in BOOLEAN

\* When the loop ends, every word of the text is in a chunk: no step leaves a
\* gap between the end of a chunk and the beginning of the next.
EveryWordIsKept ==
  ~cutting => \A w \in 0..(words - 1) :
                 \E i \in 1..Len(chunks) : chunks[i].from <= w /\ w < chunks[i].end

\* Every chunk has words that no chunk before it has: the tail of a text is
\* not embedded a second time as a chunk of its own.
EveryChunkIsNew ==
  \A i \in 1..Len(chunks) : \A j \in 1..(i - 1) : chunks[j].end < chunks[i].end

\* What the chunks are for.
ChunksCoverText == EveryWordIsKept /\ EveryChunkIsNew
===============================================================================
