------------------------------- MODULE Ntag -------------------------------
(***************************************************************************)
(* The NFC tag of mangOH Yellow: the ntag command (ntagCmdApp, arduinoNtag *)
(* and its NDEF library) and the NtagDhubIf service that runs it.          *)
(*                                                                         *)
(* A message is encoded record by record, wrapped in a TLV and written to  *)
(* the tag's EEPROM in blocks; reading finds the TLV and decodes it.  Every *)
(* command is a process of its own, so nothing is remembered between two.  *)
(* A phone reads and writes the same memory by radio: the chip keeps it    *)
(* out while blocks are written, not between the two accesses of a read.   *)
(*                                                                         *)
(* A byte is a number; the characters of a text are all the same one.      *)
(***************************************************************************)
EXTENDS Naturals, Sequences, SequencesExt

CONSTANTS
  TextLens,   \* lengths of the texts written
  Chars,      \* their characters
  Blocks,     \* blocks of user memory, which is also what the container states
  I2cMayFail, \* TRUE: an access by I2C may fail
  Dies        \* TRUE: power may fail while blocks are written

ASSUME NtagAssumption == TextLens \subseteq Nat /\ Chars \subseteq 0..255 /\ Blocks \in Nat

VARIABLES
  mem,    \* the EEPROM: the bytes from its first user block on
  ntcmd,  \* the command that runs
  held,   \* what the tag holds: a message that was written whole, or Unknown
  got,    \* what the last read of a known message returned, and that message
  fd      \* NtagDhubIf: debounce, and whether its interval is over

ntagVars == <<mem, ntcmd, held, got, fd>>

NTAG_BLOCK_SIZE == 16
NTAG_SIZE == 1913
MAX_NDEF_RECORDS == 10
tagCapacity == Blocks * NTAG_BLOCK_SIZE
I2cOk == IF I2cMayFail THEN {TRUE, FALSE} ELSE {TRUE}

Unknown == <<>>   \* a message has a record
NoCmd == [pc |-> "none", buf |-> <<>>, length |-> 0, next |-> 0, m |-> <<>>, whole |-> TRUE]

Zeros(n) == [i \in 1..n |-> 0]
\* memcpy(d + at, b) into a buffer that is long enough
Put(d, at, b) == [i \in DOMAIN d |-> IF i \in (at + 1)..(at + Len(b)) THEN b[i - at] ELSE d[i]]
ByteAt(d, i) == IF i < Len(d) THEN d[i + 1] ELSE 0
BytesAt(d, i, n) == [k \in 1..n |-> ByteAt(d, i + k - 1)]
Bit(b, mask) == (b \div mask) % 2 = 1

----------------------------------------------------------------------------
(* NDEF records and messages.                                              *)

TNF_EMPTY == 0
TNF_WELL_KNOWN == 1
Record(tnf, type, id, payload) == [tnf |-> tnf, type |-> type, id |-> id, payload |-> payload]
EmptyRecord == Record(TNF_EMPTY, <<>>, <<>>, <<>>)

\* addTextRecord: the length of the language, the language "en", the text.
addTextRecord(text) == Record(TNF_WELL_KNOWN, <<84>>, <<>>, <<2, 101, 110>> \o text)
addUriRecord(uri) == Record(TNF_WELL_KNOWN, <<85>>, <<>>, <<0>> \o uri)

getEncodedSize(r) ==
  2 + (IF Len(r.payload) > 255 THEN 4 ELSE 1) + (IF r.id # <<>> THEN 1 ELSE 0)
    + Len(r.type) + Len(r.payload) + Len(r.id)

getTnfByte(r, firstRecord, lastRecord) ==
  r.tnf + (IF firstRecord THEN 128 ELSE 0) + (IF lastRecord THEN 64 ELSE 0)
        + (IF Len(r.payload) <= 255 THEN 16 ELSE 0) + (IF r.id # <<>> THEN 8 ELSE 0)

\* The two upper bytes of a long length are always zero.
encodeRecord(r, firstRecord, lastRecord) ==
  LET n == Len(r.payload)
  IN  <<getTnfByte(r, firstRecord, lastRecord), Len(r.type)>>
        \o (IF n <= 255 THEN <<n>> ELSE <<0, 0, (n \div 256) % 256, n % 256>>)
        \o (IF r.id # <<>> THEN <<Len(r.id)>> ELSE <<>>)
        \o r.type \o r.id \o r.payload

\* A plausible bug: no record is marked as the last.
EncodeWithoutEnd(m) == FlattenSeq([i \in DOMAIN m |-> encodeRecord(m[i], i = 1, FALSE)])

encode(m) == FlattenSeq([i \in DOMAIN m |-> encodeRecord(m[i], i = 1, i = Len(m))])

encodedSize(m) == FoldSeq(LAMBDA r, n : n + getEncodedSize(r), 0, m)

\* One round of the decoder's loop, at s.index.
decodeRecord(data, s) ==
  LET tnf_byte == ByteAt(data, s.index)
      typeLength == ByteAt(data, s.index + 1)
      sr == Bit(tnf_byte, 16)
      il == Bit(tnf_byte, 8)
      at == s.index + 2
      payloadLength == IF sr THEN ByteAt(data, at)
                       ELSE 256 * ByteAt(data, at + 2) + ByteAt(data, at + 3)
      afterLength == at + (IF sr THEN 1 ELSE 4)
      idLength == IF il THEN ByteAt(data, afterLength) ELSE 0
      body == afterLength + (IF il THEN 1 ELSE 0)
      r == Record(tnf_byte % 8, BytesAt(data, body, typeLength),
                  BytesAt(data, body + typeLength, idLength),
                  BytesAt(data, body + typeLength + idLength, payloadLength))
  IN  [index |-> body + typeLength + idLength + payloadLength,
       done |-> Bit(tnf_byte, 64),
       records |-> IF Len(s.records) < MAX_NDEF_RECORDS THEN Append(s.records, r) ELSE s.records]

\* NdefMessage(data, numBytes); a round takes three bytes or more.
decode(data, numBytes) ==
  LET Round(s, k) == IF s.done \/ s.index > numBytes THEN s ELSE decodeRecord(data, s)
      start == [index |-> 0, done |-> FALSE, records |-> <<>>]
  IN  FoldLeft(Round, start, [k \in 1..(numBytes \div 3 + 1) |-> k]).records

----------------------------------------------------------------------------
(* The adapter.                                                            *)

startIndex(messageLength) == IF messageLength < 255 THEN 2 ELSE 4

calculateBufferSize(messageLength, ndefStartIndex) ==
  LET n == messageLength + ndefStartIndex + 1
  IN  ((n + NTAG_BLOCK_SIZE - 1) \div NTAG_BLOCK_SIZE) * NTAG_BLOCK_SIZE

\* The TLV, the message, the terminator, zeros.
encodedTlv(m) ==
  LET n == encodedSize(m)
      size == calculateBufferSize(n, startIndex(n))
      tlv == IF n < 255 THEN <<3, n>> ELSE <<3, 255, (n \div 256) % 256, n % 256>>
      used == tlv \o encode(m) \o <<254>>
  IN  used \o Zeros(size - Len(used))

isUnformatted == \A i \in 0..3 : ByteAt(mem, i) = 0

\* Blocks of length bytes from address 0 on: length is passed in a byte.
asByte(n) == n % 256

NtagIdle == ntcmd.pc = "none"
StartsCmd(c) == ntcmd' = [NoCmd EXCEPT !.pc = c.pc, !.buf = c.buf, !.length = c.length,
                                       !.next = c.next, !.m = c.m]

\* NtagEepromAdapter::write up to the first block.  What does not fit is refused.  A failed
\* look at the first page counts as formatted, a failed one at the container as no capacity.
write(m, rfBusy, okPage, okContainer) ==
  LET buf == encodedTlv(m)
  IN  /\ NtagIdle
      /\ IF rfBusy \/ (okPage /\ isUnformatted) \/ ~okContainer \/ Len(buf) > tagCapacity
           THEN UNCHANGED <<ntcmd, held>>
           ELSE /\ StartsCmd([pc |-> "write", buf |-> buf, length |-> asByte(Len(buf)),
                              next |-> 0, m |-> m])
                /\ held' = Unknown
      /\ UNCHANGED <<mem, got>>

\* Ntag::write, one block; an error ends it, and the adapter goes on all the same.
writeBlock(ok) ==
  /\ ntcmd.pc = "write" /\ ntcmd.next < ntcmd.length
  /\ IF ok THEN /\ mem' = Put(mem, ntcmd.next, BytesAt(ntcmd.buf, ntcmd.next, NTAG_BLOCK_SIZE))
                /\ ntcmd' = [ntcmd EXCEPT !.next = @ + NTAG_BLOCK_SIZE]
           ELSE /\ ntcmd' = [ntcmd EXCEPT !.next = ntcmd.length, !.whole = FALSE]
                /\ UNCHANGED mem
  /\ UNCHANGED <<held, got, fd>>

\* The last block is noted, the memory released and success returned.
writeEnds ==
  /\ ntcmd.pc = "write" /\ ntcmd.next >= ntcmd.length
  /\ held' = IF ntcmd.whole THEN ntcmd.m ELSE Unknown
  /\ ntcmd' = NoCmd
  /\ UNCHANGED <<mem, got, fd>>

\* NtagEepromAdapter::read: first the TLV is looked for, in two places.
findNdefMessage ==
  IF ByteAt(mem, 0) = 3 THEN [length |-> ByteAt(mem, 1), at |-> 2]
  ELSE IF ByteAt(mem, 5) = 3 THEN [length |-> ByteAt(mem, 6), at |-> 7]
  ELSE [length |-> 0, at |-> 0]

\* Unformatted reads as no message, and where there is no TLV, or its read fails, as the
\* empty record (a failed look at the first page counts as formatted).
read(okPage, ok) ==
  LET f == IF ok THEN findNdefMessage ELSE [length |-> 0, at |-> 0]
      here == ok /\ held # Unknown
  IN  /\ NtagIdle
      /\ IF (okPage /\ isUnformatted) \/ f.length = 0
           THEN /\ got' = IF here THEN <<<<EmptyRecord>>, held>> ELSE Unknown
                /\ UNCHANGED ntcmd
           ELSE /\ StartsCmd([pc |-> "read", buf |-> <<>>, length |-> f.length, next |-> f.at,
                              m |-> held])
                /\ got' = Unknown
      /\ UNCHANGED <<mem, held>>

\* Then the buffer is read, again with its length in a byte, and decoded.  What a failed
\* read leaves in the buffer is anything.
readData(ok) ==
  LET size == calculateBufferSize(ntcmd.length, ntcmd.next)
      buffer == BytesAt(mem, 0, asByte(size)) \o Zeros(size - asByte(size))
      message == SubSeq(buffer, ntcmd.next + 1, size)
  IN  /\ ntcmd.pc = "read"
      /\ got' = IF ok /\ ntcmd.whole /\ ntcmd.m # Unknown
                THEN <<decode(message, ntcmd.length), ntcmd.m>>
                ELSE Unknown
      /\ ntcmd' = NoCmd
      /\ UNCHANGED <<mem, held, fd>>

\* clean: zeros, except in the blocks that hold the configuration.
clean ==
  /\ NtagIdle
  /\ ntcmd' = [NoCmd EXCEPT !.pc = "clean"]
  /\ held' = Unknown
  /\ UNCHANGED <<mem, got, fd>>

cleanBlock(ok) ==
  LET i == ntcmd.next
  IN  /\ ntcmd.pc = "clean" /\ i < Blocks
      /\ mem' = IF ok /\ i \notin 57..62
                THEN Put(mem, i * NTAG_BLOCK_SIZE, Zeros(NTAG_BLOCK_SIZE)) ELSE mem
      /\ ntcmd' = IF ok THEN [ntcmd EXCEPT !.next = @ + 1] ELSE NoCmd
      /\ UNCHANGED <<held, got, fd>>

cleanEnds ==
  /\ ntcmd.pc = "clean" /\ ntcmd.next = Blocks
  /\ ntcmd' = NoCmd
  /\ UNCHANGED <<mem, held, got, fd>>

PowerFails ==
  /\ Dies /\ ~NtagIdle
  /\ ntcmd' = NoCmd
  /\ UNCHANGED <<mem, held, got, fd>>

----------------------------------------------------------------------------
(* The commands, the service and the phone.                                *)

Texts == {[i \in 1..n |-> c] : n \in TextLens, c \in Chars}
Uri == <<47>>

TextWrite(text, rfBusy, okPage, okContainer) ==
  write(<<addTextRecord(text)>>, rfBusy, okPage, okContainer)
WriteTagMultipleRecords(rfBusy, okPage, okContainer) ==
  write(<<addTextRecord(<<72, 105>>), addUriRecord(Uri), addTextRecord(<<33>>)>>,
        rfBusy, okPage, okContainer)
EraseTag(rfBusy, okPage, okContainer) == write(<<EmptyRecord>>, rfBusy, okPage, okContainer)

\* WriteNDEF of NtagDhubIf: a longer text than the memory is dropped.
WriteNDEF(text, rfBusy, okPage, okContainer) ==
  /\ Len(text) <= NTAG_SIZE - 1
  /\ TextWrite(text, rfBusy, okPage, okContainer)

\* One command at a time: the service waits for each.
Commands ==
  /\ \/ \E rfBusy \in BOOLEAN : \E okPage, okContainer \in I2cOk :
          \/ \E text \in Texts : WriteNDEF(text, rfBusy, okPage, okContainer)
          \/ WriteTagMultipleRecords(rfBusy, okPage, okContainer)
          \/ EraseTag(rfBusy, okPage, okContainer)
     \/ \E okPage, ok \in I2cOk : read(okPage, ok)
  /\ UNCHANGED fd

\* FdChangeCallback: a field pushes what the tag holds, unless debounce is still on; the
\* first change after the interval only switches it off.
FdChangeCallback(state) ==
  /\ NtagIdle
  /\ IF fd.debounce
       THEN fd' = IF fd.over THEN [debounce |-> FALSE, over |-> FALSE] ELSE fd
       ELSE fd' = IF state THEN [debounce |-> TRUE, over |-> FALSE] ELSE fd
  /\ IF state /\ ~fd.debounce THEN \E okPage, ok \in I2cOk : read(okPage, ok)
     ELSE UNCHANGED <<mem, ntcmd, held, got>>

IntervalEnds ==
  /\ fd.debounce /\ ~fd.over
  /\ fd' = [fd EXCEPT !.over = TRUE]
  /\ UNCHANGED <<mem, ntcmd, held, got>>

\* The phone formats the tag and writes a message, with or without a lock control TLV in
\* front; it is kept out while blocks are written.
PhoneWrites(m, front) ==
  /\ ntcmd.pc \notin {"write", "clean"}
  /\ mem' = Put(mem, 0, front \o <<3, encodedSize(m)>> \o encode(m) \o <<254>>)
  /\ held' = m
  /\ ntcmd' = IF NtagIdle THEN ntcmd ELSE [ntcmd EXCEPT !.whole = FALSE]
  /\ UNCHANGED <<got, fd>>

PhoneMessages == {<<Record(TNF_WELL_KNOWN, <<85>>, <<105, 100>>, <<0, 47>>)>>, <<EmptyRecord>>}
LockControl == <<1, 3, 160, 16, 68>>

NtagInit ==
  /\ mem = Zeros(tagCapacity)
  /\ ntcmd = NoCmd /\ held = Unknown /\ got = Unknown
  /\ fd = [debounce |-> FALSE, over |-> FALSE]

NtagNext ==
  \/ Commands \/ clean
  \/ \E ok \in I2cOk : writeBlock(ok) \/ cleanBlock(ok) \/ readData(ok)
  \/ writeEnds \/ cleanEnds \/ PowerFails
  \/ \E state \in BOOLEAN : FdChangeCallback(state)
  \/ IntervalEnds
  \/ \E m \in PhoneMessages : \E front \in {<<>>, LockControl} : PhoneWrites(m, front)

NtagSpec == NtagInit /\ [][NtagNext]_ntagVars

----------------------------------------------------------------------------
(* The properties.                                                         *)

\* What is read is what was written: when the tag holds a message that was written without
\* an error, by this side or by a phone, a read that meets none decodes that message, record
\* by record (NtagEepromAdapter::read after NtagEepromAdapter::write; NdefMessage's decoder
\* after its encoder).
ReadsBack == got # Unknown => got[1] = got[2]

\* "text - write a text message NDEF record to the tag": when a write that met no error
\* ends, the message it encoded is in the memory (NtagEepromAdapter::write).
TextIsWritten ==
  (ntcmd.pc = "write" /\ ntcmd.next >= ntcmd.length /\ ntcmd.whole)
    => BytesAt(mem, 0, Len(ntcmd.buf)) = ntcmd.buf
============================================================================
