-------------------------------- MODULE Chunk --------------------------------
(***************************************************************************)
(* The code of a function (chunk.c): bytes, constants, and a table of the  *)
(* lines they came from, with one entry for a run of bytes.                *)
(*                                                                         *)
(* Ghosts, which no function reads: at is the position in the text each    *)
(* byte was emitted for, starts are the offsets at which an instruction    *)
(* was emitted, landed those that a jump was patched to lead to.           *)
(***************************************************************************)
EXTENDS Integers, Sequences, SequencesExt

init_chunk == [opcodes |-> <<>>, lines |-> <<>>, constants |-> <<>>,
               at |-> <<>>, starts |-> {}, landed |-> {}]

Count(chunk) == Len(chunk.opcodes)
Byte(chunk, offset) == chunk.opcodes[offset + 1]

\* Called after the byte was added.
write_line(chunk, line) ==
    IF chunk.lines # <<>> /\ Last(chunk.lines).line = line THEN chunk
    ELSE [chunk EXCEPT !.lines = Append(@, [line |-> line, offset |-> Count(chunk) - 1])]

write_byte(chunk, byte, token) ==
    write_line([chunk EXCEPT !.opcodes = Append(@, byte), !.at = Append(@, token.start)], token.line)

write_constant(chunk, value) == [chunk EXCEPT !.constants = Append(@, value)]

\* Fault: what the bytes were emitted for is not forgotten with them.
Without_Bytes(chunk, n) ==
    LET kept == Count(chunk) - n
    IN  [chunk EXCEPT !.opcodes = SubSeq(@, 1, kept), !.starts = { s \in @ : s < kept }]

\* count is decremented, here and there in the compiler; the lines stay.
Without(chunk, n) ==
    LET kept == Count(chunk) - n
    IN  [chunk EXCEPT !.opcodes = SubSeq(@, 1, kept), !.at = SubSeq(@, 1, kept),
                      !.starts = { s \in @ : s < kept }]

\* No entry of the table of lines begins behind the first of the last n bytes.
Settled(chunk, n) == chunk.lines # <<>> => Last(chunk.lines).offset <= Count(chunk) - n

\* Whether the last n bytes are whole instructions, no jump leads behind them,
\* and no line begins behind the first.
Loose(chunk, n) ==
    LET kept == Count(chunk) - n
    IN  /\ kept \in chunk.starts
        /\ \A target \in chunk.landed : target <= kept
        /\ Settled(chunk, n)

\* Fault: an entry is sought up to and with the offset the next one begins at.
Bisect_Inclusive(lines, offset, s) ==
    LET mid == (s.start + s.end) \div 2
    IN  IF offset < lines[mid + 1].offset THEN [s EXCEPT !.end = mid - 1]
        ELSE IF mid = Len(lines) - 1 \/ offset <= lines[mid + 2].offset
             THEN [start |-> mid, end |-> mid]
        ELSE [s EXCEPT !.start = mid + 1]

\* Fault: the interval is not made smaller when it begins at its middle.
Bisect_Again(lines, offset, s) ==
    LET mid == (s.start + s.end) \div 2
    IN  IF offset < lines[mid + 1].offset THEN [s EXCEPT !.end = mid - 1]
        ELSE IF mid = Len(lines) - 1 \/ offset < lines[mid + 2].offset
             THEN [start |-> mid, end |-> mid]
        ELSE [s EXCEPT !.start = mid]

\* A turn of the search for the last entry that begins at or before the offset,
\* which has nothing left to do when start and end are that entry.
Bisect(lines, offset, s) ==
    LET mid == (s.start + s.end) \div 2
    IN  IF offset < lines[mid + 1].offset THEN [s EXCEPT !.end = mid - 1]
        ELSE IF mid = Len(lines) - 1 \/ offset < lines[mid + 2].offset
             THEN [start |-> mid, end |-> mid]
        ELSE [s EXCEPT !.start = mid + 1]

\* Every turn leaves fewer entries, so that there are enough.
decode_line(chunk, offset) ==
    LET lines == chunk.lines
        turn[k \in 0..Len(lines)] ==
            IF k = 0 THEN [start |-> 0, end |-> Len(lines) - 1]
            ELSE Bisect(lines, offset, turn[k - 1])
    IN  lines[turn[Len(lines)].start + 1].line

=============================================================================
