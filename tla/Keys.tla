-------------------------------- MODULE Keys --------------------------------
(***************************************************************************)
(* The keys of documents (keys.py).  A path is the sequence of its          *)
(* characters, of which "/" and "_" matter; it is relative and has no        *)
(* backslashes any more.  The flat separator is "__".                       *)
(***************************************************************************)
EXTENDS Naturals, Sequences, SequencesExt

FlatSeparator == <<"_", "_">>

HasSeparator(s) == \E i \in 1 .. Len(s) - 1 : SubSeq(s, i, i + 1) = FlatSeparator

Encodable_Anything(path, format) == TRUE

\* KeyFormatError: the separator is reserved.
Encodable(path, format) == format = "flat" => ~HasSeparator(path)

EncodeKey(path, format) ==
    IF format = "path" THEN path
    ELSE FlattenSeq([i \in DOMAIN path |->
             IF path[i] = "/" THEN FlatSeparator ELSE <<path[i]>>])

\* str.replace: from the left, without overlaps.
Unflatten(key) ==
    LET from[i \in 1 .. Len(key) + 2] ==
            IF i > Len(key) THEN <<>>
            ELSE IF i < Len(key) /\ SubSeq(key, i, i + 1) = FlatSeparator
                 THEN <<"/">> \o from[i + 2]
                 ELSE <<key[i]>> \o from[i + 1]
    IN from[1]

DecodeKey(key, format) == IF format = "path" THEN key ELSE Unflatten(key)

\* An underscore beside a slash: what the reserved separator does not rule out.
Ambiguous(path) ==
    \E i \in 1 .. Len(path) - 1 : {path[i], path[i + 1]} = {"_", "/"}
=============================================================================
