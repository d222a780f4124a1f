------------------------------ MODULE VaultChunks -----------------------------
(***************************************************************************)
(* vault-chunks.mjs: how the text of a note becomes chunks.  A note is the *)
(* sequence of its paragraphs, of which only the length counts, and, for a *)
(* paragraph over the budget, where splitLong finds a break and how much   *)
(* white space it trims off there.                                         *)
(***************************************************************************)
EXTENDS Integers, Sequences, SequencesExt

CONSTANTS
  MaxChars, MinChars,
  Length,       \* bound: lengths of a paragraph
  MaxLength,    \* bound: the longest
  Cuts,         \* bound: where breaks are, from what is left to one cut
  Paragraphs    \* bound: paragraphs of a note

ASSUME ChunksAssumption ==
  /\ MaxChars \in Nat /\ MinChars \in 1 .. MaxChars /\ Paragraphs \in Nat
  /\ MaxLength \in Nat /\ Length \subseteq 1 .. MaxLength
  /\ \A cut \in Cuts : \A rest \in MaxChars + 1 .. MaxLength :
       /\ cut[rest].at \in MinChars .. MaxChars       \* a break, or the budget
       /\ cut[rest].pad \in 0 .. cut[rest].at - 1     \* trimmed off the piece
       /\ cut[rest].lead \in 0 .. rest - cut[rest].at - 1   \* and off the rest

Break == 2     \* the blank line between two paragraphs

\* A chunk: its length and the paragraphs that are in it.
Nothing == [len |-> 0, of |-> {}]

Pushed(out, piece) == IF piece.len >= MinChars THEN Append(out, piece) ELSE out
PushedAll(out, pieces) == FoldLeft(Pushed, out, pieces)

\* splitLong: cut until the rest is within the budget; the pieces of paragraph i.
\* What it trims is white space, and neither the piece nor the rest is all that.
SplitLong(p, i) ==
  LET pieces[rest \in 0 .. p.len] ==
        IF rest <= MaxChars THEN <<[len |-> rest, of |-> {i}]>>
        ELSE LET cut == p.cut[rest] IN
             <<[len |-> cut.at - cut.pad, of |-> {i}]>> \o pieces[rest - cut.at - cut.lead]
  IN pieces[p.len]

\* One round of chunk()'s loop: st.out so far, st.buf not yet flushed.
Taken(st, p, i) ==
  LET joined == [len |-> st.buf.len + p.len + (IF st.buf.len > 0 THEN Break ELSE 0),
                 of  |-> st.buf.of \cup {i}]
      alone  == [len |-> p.len, of |-> {i}]
  IN IF p.len > MaxChars
       THEN [out |-> PushedAll(Pushed(st.out, st.buf), SplitLong(p, i)), buf |-> Nothing]
     ELSE IF st.buf.len + p.len + Break > MaxChars /\ st.buf.len >= MinChars
       THEN [out |-> Append(st.out, st.buf), buf |-> alone]
     ELSE [out |-> st.out, buf |-> joined]

AtEnd(note) ==
  FoldLeftDomain(LAMBDA st, i : Taken(st, note[i], i), [out |-> <<>>, buf |-> Nothing], note)
Chunk(note) == Pushed(AtEnd(note).out, AtEnd(note).buf)

\* chunksForVault: a note that is all fragments is one chunk.
Joined(note) == FoldLeft(LAMBDA n, p : n + p.len + Break, -Break, note)
Whole(note) == [len |-> Joined(note), of |-> DOMAIN note]
BugChunksOf(note) == Chunk(note)
ChunksOf(note) ==
  IF Chunk(note) = <<>> /\ note # <<>> THEN <<Whole(note)>> ELSE Chunk(note)

-----------------------------------------------------------------------------
Notes == UNION {[1 .. n -> [len : Length, cut : Cuts]] : n \in 1 .. Paragraphs}

\* A paragraph that is no mere fragment, and of which splitLong does not leave
\* fragments only: white space can be so much of a long one that it does.
IsLong(p) == p.len > MaxChars
Bears(p, i) ==
  IF IsLong(p) THEN \E k \in DOMAIN SplitLong(p, i) : SplitLong(p, i)[k].len >= MinChars
               ELSE p.len >= MinChars

\* Every paragraph that bears text is in a chunk, and no chunk is longer than what
\* one vector's metadata may hold, unless a long paragraph bears nothing: then the
\* note may come out whole.
Covered(note) ==
  LET chunks == ChunksOf(note) IN
  /\ chunks # <<>>
  /\ \A i \in DOMAIN note :
       Bears(note[i], i) => \E c \in DOMAIN chunks : i \in chunks[c].of
  /\ \A c \in DOMAIN chunks :
       /\ \/ chunks[c].len <= MaxChars + MinChars + 1
          \/ \E i \in DOMAIN note : IsLong(note[i]) /\ ~Bears(note[i], i)
       /\ chunks[c].len < MinChars => Len(chunks) = 1
=============================================================================
