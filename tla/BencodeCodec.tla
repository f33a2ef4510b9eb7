---------------------------- MODULE BencodeCodec ----------------------------
(***************************************************************************)
(* The bencode encoder and decoder, and what happens to an encoded value on  *)
(* its way: it is read back whole, it is the head of a message whose tail is *)
(* raw data (a metadata piece), or the process died while it was writing the *)
(* file, which is truncated and rewritten in place (client, tracker and DHT  *)
(* state).  Bytes are one-character strings.                                 *)
(***************************************************************************)
EXTENDS Integers, Sequences, SequencesExt

CONSTANT MaxItems   \* items of a list, keys of a dictionary

BencodeAssumption == MaxItems \in Nat

Digits == <<"0", "1", "2", "3", "4", "5", "6", "7", "8", "9">>
Ascii == <<"-">> \o Digits \o <<":", "d", "e", "i", "l", "x">>   \* in the order of the bytes

Code(c) == CHOOSE i \in DOMAIN Ascii : Ascii[i] = c
IsDigit(c) == c \in ToSet(Digits)
DigitValue(c) == (CHOOSE i \in DOMAIN Digits : Digits[i] = c) - 1

(* Value: an Integer, a String, a List, or a Dict as its pairs in key order. *)
Integer(n) == [type |-> "int", num |-> n, str |-> <<>>, items |-> <<>>]
String(s) == [type |-> "str", num |-> 0, str |-> s, items |-> <<>>]
List(l) == [type |-> "list", num |-> 0, str |-> <<>>, items |-> l]
Dict(d) == [type |-> "dict", num |-> 0, str |-> <<>>, items |-> d]
-----------------------------------------------------------------------------
RECURSIVE Decimal(_), encode(_), decode_value(_), list_items(_, _), dict_items(_, _), Less(_, _),
          Number(_)

Decimal(n) ==
    CASE n < 0 -> <<"-">> \o Decimal(-n)
      [] n \in 0..9 -> <<Digits[n + 1]>>
      [] OTHER -> Append(Decimal(n \div 10), Digits[(n % 10) + 1])

encode_string(s) == Decimal(Len(s)) \o <<":">> \o s

encode(v) ==
    CASE v.type = "int" -> <<"i">> \o Decimal(v.num) \o <<"e">>
      [] v.type = "str" -> encode_string(v.str)
      [] v.type = "list" ->
            <<"l">> \o FlattenSeq([i \in DOMAIN v.items |-> encode(v.items[i])]) \o <<"e">>
      [] v.type = "dict" ->
            <<"d">> \o FlattenSeq([i \in DOMAIN v.items |->
                            encode_string(v.items[i][1]) \o encode(v.items[i][2])]) \o <<"e">>
-----------------------------------------------------------------------------
(* A decoder returns the value and the data that is left, or throws. *)
Throw == [ok |-> FALSE, val |-> Integer(0), rest |-> <<>>]
Return(v, rest) == [ok |-> TRUE, val |-> v, rest |-> rest]

(* std::find: the first c of data, or one past its end. *)
Find(data, c) ==
    CHOOSE i \in 1..(Len(data) + 1) :
        (i <= Len(data) => data[i] = c) /\ \A j \in 1..(i - 1) : data[j] # c

Before(data, i) == SubSeq(data, 1, i - 1)
After(data, i) == SubSeq(data, i + 1, Len(data))

(* std::from_chars: a sign and the longest run of digits; characters after it are
   left alone. *)
Number(digits) ==
    IF digits = <<>> THEN 0 ELSE 10 * Number(Front(digits)) + DigitValue(Last(digits))

Unsigned(s) ==
    LET n == Find(Append([i \in DOMAIN s |-> IsDigit(s[i])], FALSE), FALSE) - 1
    IN  [ok |-> n > 0, num |-> Number(SubSeq(s, 1, n)), used |-> n]

from_chars(s) ==
    IF s # <<>> /\ s[1] = "-"
    THEN LET u == Unsigned(Tail(s)) IN [ok |-> u.ok, num |-> -u.num, used |-> u.used + 1]
    ELSE Unsigned(s)

decode_string(data) ==
    LET colon == Find(data, ":")
        len == from_chars(Before(data, colon))
        text == After(data, colon)
    IN  IF colon > Len(data) \/ ~len.ok \/ len.num < 0 \/ len.num > Len(text) THEN Throw
        ELSE Return(String(SubSeq(text, 1, len.num)), After(text, len.num))

AllRead(n, text) == n.ok /\ n.used = Len(text)

decode_integer(data) ==
    LET text == Before(Tail(data), Find(Tail(data), "e"))
        n == from_chars(text)
    IN  IF Len(text) = Len(Tail(data)) \/ ~AllRead(n, text) THEN Throw
        ELSE Return(Integer(n.num), After(Tail(data), Len(text) + 1))

Accepted(v) == Return(v, <<>>)
Unterminated(v) == Throw

(* The loops of decode_list() and decode_dict(), and their check for the final e. *)
list_items(items, data) ==
    IF data = <<>> THEN Unterminated(List(items))
    ELSE IF data[1] = "e" THEN Return(List(items), Tail(data))
    ELSE LET v == decode_value(data)
         IN  IF v.ok THEN list_items(Append(items, v.val), v.rest) ELSE Throw

Less(s, t) ==
    /\ t # <<>>
    /\ \/ s = <<>>
       \/ Code(s[1]) < Code(t[1])
       \/ s[1] = t[1] /\ Less(Tail(s), Tail(t))

(* std::map::emplace: the first value of a key stays, and the keys are in order. *)
Emplace(items, key, val) ==
    IF \E i \in DOMAIN items : items[i][1] = key THEN items
    ELSE SelectSeq(items, LAMBDA p : Less(p[1], key)) \o <<<<key, val>>>>
            \o SelectSeq(items, LAMBDA p : Less(key, p[1]))

dict_items(items, data) ==
    IF data = <<>> THEN Unterminated(Dict(items))
    ELSE IF data[1] = "e" THEN Return(Dict(items), Tail(data))
    ELSE LET k == decode_string(data)
             v == IF k.ok THEN decode_value(k.rest) ELSE Throw
         IN  IF v.ok THEN dict_items(Emplace(items, k.val.str, v.val), v.rest) ELSE Throw

decode_value(data) ==
    IF data = <<>> THEN Throw
    ELSE CASE IsDigit(data[1]) -> decode_string(data)
           [] data[1] = "i" -> decode_integer(data)
           [] data[1] = "l" -> list_items(<<>>, Tail(data))
           [] data[1] = "d" -> dict_items(<<>>, Tail(data))
           [] OTHER -> Throw

Consumed(data, rest) == Len(data) - Len(rest)

decode(data) ==
    LET r == decode_value(data)
    IN  IF r.ok /\ Consumed(data, r.rest) = Len(data) THEN r ELSE Throw
-----------------------------------------------------------------------------
(* The values: strings that look like syntax, and lists and dictionaries of them. *)
Atoms == {Integer(n) : n \in {0, -1, 12}} \cup
         {String(s) : s \in {<<>>, <<"e">>, <<"1", ":">>, <<"x", "x">>}}
Keys == {<<>>, <<"x">>, <<"x", "e">>}
Pairs(vals) == {p \in SeqOf(Keys \X vals, MaxItems) :
                   \A i \in DOMAIN p : \A j \in 1..(i - 1) : Less(p[j][1], p[i][1])}
Flat == Atoms \cup {List(l) : l \in SeqOf(Atoms, MaxItems)} \cup {Dict(d) : d \in Pairs(Atoms)}
Values == Flat \cup {List(<<v>>) : v \in Flat} \cup {Dict(<<<<k, v>>>>) : k \in Keys, v \in Flat}
Raw == {<<>>, <<"e">>, <<"1", ":", "x">>, <<"x", "e", ":">>}

VARIABLES value,  \* what was encoded
          way,    \* what happened to it
          bytes,  \* what arrived
          got     \* what the decoder made of it
vars == <<value, way, bytes, got>>

Init == value \in Values /\ way = "encoded" /\ bytes = encode(value) /\ got = Throw

whole ==
    /\ way = "encoded"
    /\ way' = "whole" /\ got' = decode(bytes)
    /\ UNCHANGED <<value, bytes>>

(* The first n bytes reached the file. *)
torn ==
    /\ way = "encoded"
    /\ \E n \in 0..(Len(bytes) - 1) :
          /\ bytes' = SubSeq(bytes, 1, n)
          /\ got' = decode(SubSeq(bytes, 1, n))
    /\ way' = "torn" /\ UNCHANGED value

(* The header of a metadata message: what is not consumed is the piece. *)
headed ==
    /\ way = "encoded"
    /\ \E raw \in Raw :
          LET r == decode_value(bytes \o raw) IN
          /\ bytes' = bytes \o raw
          /\ got' = [r EXCEPT !.rest = After(bytes \o raw, Consumed(bytes \o raw, r.rest))]
    /\ way' = "headed" /\ UNCHANGED value

Next == whole \/ torn \/ headed

Spec == Init /\ [][Next]_vars
-----------------------------------------------------------------------------
(* The decoder takes an encoding for the value that was encoded, strings that look like
   syntax included; it stops at the end of a header, whatever the raw data after it looks
   like; and it refuses a file of which only a beginning was written. *)
DecodesExactly ==
    CASE way = "whole"   -> got = Return(value, <<>>)
      [] way = "headed"  -> got.ok /\ got.val = value /\ bytes = encode(value) \o got.rest
      [] way = "torn"    -> ~got.ok
      [] way = "encoded" -> TRUE
=============================================================================
