----------------------------- MODULE NetParser -----------------------------
(***************************************************************************)
(* NetUnparser and NetParser (libsponge/util/parser.hh, parser.cc): a      *)
(* header is unparsed into a string, integer by integer, arrives           *)
(* shortened or whole, and is parsed by a reader that asks for integers    *)
(* and skips bytes without looking at the error before it goes on.         *)
(*                                                                         *)
(* A byte has B values (256 in the code); an integer is 1, 2 or 4 bytes.   *)
(* Integers of four bytes are also taken for IPv4 addresses, which module  *)
(* Addresses is about.                                                     *)
(***************************************************************************)
EXTENDS Buffers, Addresses, FiniteSets

CONSTANT MaxBytes  \* bound on the length of the string

ASSUME ParserAssumption == MaxBytes \in Nat /\ NoStorage \notin Seq(0..B - 1)

VARIABLES
  s,        \* the unparser's string
  _buffer,  \* the parser's Buffer
  _error,   \* the parser's ParseResult
  phase,    \* "unparse", then "parse"
  fields,   \* history: the integers unparsed, with their widths
  arrived,  \* history: how many bytes of the string the parser was given
  taken,    \* history: how many of them it has consumed
  result    \* what the last u8(), u16() or u32() returned, whether it was
            \* read, its width and its place

vars == <<s, _buffer, _error, phase, fields, arrived, taken, result>>

Width == {1, 2, 4}

ParseResult == {"NoError", "BadChecksum", "PacketTooShort", "WrongIPVersion",
                "HeaderTooShort", "TruncatedPacket", "Unsupported"}

\* The value of a string read in network byte order.
NetworkOrder(str) == FoldLeft(LAMBDA v, byte : v * B + byte, 0, str)

NoResult == [ok |-> FALSE, width |-> 0, val |-> 0, at |-> 0]

Init ==
  /\ s = <<>>
  /\ _buffer = BufferOf(<<>>)
  /\ _error = "NoError"
  /\ phase = "unparse"
  /\ fields = <<>>
  /\ arrived = 0
  /\ taken = 0
  /\ result = NoResult
-----------------------------------------------------------------------------
UnparsedLittleEndian(len, val) == [i \in 1..len |-> (val \div Weight(i - 1)) % B]

\* The bytes NetUnparser::_unparse_int() appends.
Unparsed(len, val) == [i \in 1..len |-> (val \div Weight(len - i)) % B]

\* NetUnparser::u8(), u16(), u32()
unparse(len, val) ==
  /\ phase = "unparse"
  /\ Len(s) + len <= MaxBytes
  /\ s' = s \o Unparsed(len, val)
  /\ fields' = Append(fields, [width |-> len, val |-> val])
  /\ UNCHANGED <<_buffer, _error, phase, arrived, taken, result>>

\* NetParser(buffer), on all or part of what was unparsed.
NetParser(n) ==
  /\ phase = "unparse"
  /\ phase' = "parse"
  /\ _buffer' = BufferOf(SubSeq(s, 1, n))
  /\ arrived' = n
  /\ UNCHANGED <<s, _error, fields, taken, result>>

CheckSizeForgets(size) ==
  IF size > BufferSize(_buffer) THEN "PacketTooShort" ELSE "NoError"

\* _check_size(size): the error it leaves.
CheckSize(size) == IF size > BufferSize(_buffer) THEN "PacketTooShort" ELSE _error

\* NetParser::_parse_int<T>(): 0 while there is an error, found now or before.
u(len) ==
  LET err == CheckSize(len) IN
  /\ phase = "parse"
  /\ _error' = err
  /\ \/ /\ err # "NoError"
        /\ result' = [ok |-> FALSE, width |-> len, val |-> 0, at |-> taken]
        /\ UNCHANGED <<_buffer, taken>>
     \/ /\ err = "NoError"
        /\ result' = [ok |-> TRUE, width |-> len, at |-> taken,
                      val |-> NetworkOrder(SubSeq(Str(_buffer), 1, len)) % Weight(len)]
        /\ _buffer' = BufferRemovePrefix(_buffer, len)
        /\ taken' = taken + len
  /\ UNCHANGED <<s, phase, fields, arrived>>

\* NetParser::remove_prefix(n)
remove_prefix(n) ==
  /\ phase = "parse"
  /\ _error' = CheckSize(n)
  /\ \/ CheckSize(n) # "NoError" /\ UNCHANGED <<_buffer, taken>>
     \/ /\ CheckSize(n) = "NoError"
        /\ _buffer' = BufferRemovePrefix(_buffer, n)
        /\ taken' = taken + n
  /\ UNCHANGED <<s, phase, fields, arrived, result>>

\* set_error(res), called by a header's parser on what it has read; with
\* NoError it clears the error, and the parser goes on where it stood.
set_error(res) ==
  /\ phase = "parse"
  /\ _error' = res
  /\ UNCHANGED <<s, _buffer, phase, fields, arrived, taken, result>>

Next ==
  \/ \E len \in Width : \E val \in 0..Weight(len) - 1 : unparse(len, val)
  \/ \E n \in 0..Len(s) : NetParser(n)
  \/ \E len \in Width : u(len)
  \/ \E n \in 0..3 : remove_prefix(n)
  \/ \E res \in ParseResult : set_error(res)

Spec == Init /\ [][Next]_vars
-----------------------------------------------------------------------------
\* The bytes that a number of fields take.
Total(fs) == FoldLeft(LAMBDA n, field : n + field.width, 0, fs)

\* The position of the i-th field in the string.
Position(i) == Total(SubSeq(fields, 1, i - 1))

\* Whatever was parsed or skipped before, and whatever errors were cleared,
\* an integer that is read, without error, where one of the same width was
\* written is the integer written.
RoundTrip ==
  result.ok =>
    \A i \in DOMAIN fields :
      result.width = fields[i].width /\ result.at = Position(i)
        => result.val = fields[i].val

\* The parser never runs past the bytes that arrived, which may be fewer than
\* were sent, also when it is told to forget that they were too few; and what
\* it has left is what follows the bytes it has taken.
NeverPastTheEnd ==
  phase = "parse" =>
    taken <= arrived /\ Str(_buffer) = SubSeq(s, taken + 1, arrived)

\* An Address made of an integer that was parsed holds the very bytes of the
\* packet, in network byte order whatever the host's, gives the integer
\* back, and equals another one exactly if that was made of the same
\* integer.
AddressHoldsThePacket ==
  result.ok /\ result.width = 4 =>
    LET address == from_ipv4_numeric(result.val) IN
    /\ SubSeq(address.storage, 3, 6) = SubSeq(s, result.at + 1, result.at + 4)
    /\ ipv4_numeric(address) = result.val
    /\ \A i \in DOMAIN fields :
         Equal(address, from_ipv4_numeric(fields[i].val)) <=> fields[i].val = result.val

\* While there is an error nothing is consumed and every integer reads as 0,
\* so a header's parser may test for it once at the end; and only its own
\* set_error(NoError) ends that.
ErrorStops ==
  [][_error # "NoError" =>
       /\ _error' # "NoError" \/ set_error("NoError")
       /\ UNCHANGED <<_buffer, taken>>
       /\ result' # result => result'.val = 0 /\ ~result'.ok]_vars
=============================================================================
