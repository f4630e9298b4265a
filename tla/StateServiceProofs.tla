------------------------- MODULE StateServiceProofs -------------------------
(* Theorems about StateService, for any calls, items, workloads and number *)
(* of faults.                                                              *)
EXTENDS StateService, SequenceTheorems, FiniteSetTheorems, TLAPS

USE ServiceAssumption

-----------------------------------------------------------------------------
(* What a call is about does not change, and tells its file. *)

LEMMA OpOfCall ==
    ASSUME req \in Workloads, NEW c \in Calls
    PROVE  req[c].op \in {"bump", "put", "add", "decide", "cost_get", "provenance_get",
                          "queue_list", "audit_read", "stranger", "malformed", "unrouted",
                          "append"}
<1>1. req[c] \in Requests
  OBVIOUS
<1>2. DOMAIN Changes = {"bump", "put", "add", "decide"}
  BY DEF Changes
<1>3. DOMAIN Reads = {"cost_get", "provenance_get", "queue_list", "audit_read"}
  BY DEF Reads
<1>4. DOMAIN Refusals = {"stranger", "malformed", "unrouted"}
  BY DEF Refusals
<1>5. req[c].op \in Ops
  BY <1>1 DEF Requests
<1>6. QED
  BY <1>2, <1>3, <1>4, <1>5 DEF Ops

LEMMA FileOfCall ==
    ASSUME req \in Workloads, NEW c \in Calls
    PROVE  /\ FileOf(c) \in Files
           /\ c \in Changing <=> req[c].op \in {"bump", "put", "add", "decide"}
           /\ c \in Reading <=>
                 req[c].op \in {"cost_get", "provenance_get", "queue_list", "audit_read"}
           /\ req[c].op \in DOMAIN Refusals <=>
                 req[c].op \in {"stranger", "malformed", "unrouted"}
           /\ c \in Changing => FileOf(c) # "audit"
           /\ req[c].op \in {"add", "decide"} => FileOf(c) = "queue"
           /\ req[c].op = "append" => FileOf(c) = "audit"
<1>1. /\ DOMAIN Changes = {"bump", "put", "add", "decide"}
      /\ Changes["bump"] = "cost" /\ Changes["put"] = "provenance"
      /\ Changes["add"] = "queue" /\ Changes["decide"] = "queue"
  BY DEF Changes
<1>2. /\ DOMAIN Reads = {"cost_get", "provenance_get", "queue_list", "audit_read"}
      /\ Reads["cost_get"] = "cost" /\ Reads["provenance_get"] = "provenance"
      /\ Reads["queue_list"] = "queue" /\ Reads["audit_read"] = "audit"
  BY DEF Reads
<1>3. DOMAIN Refusals = {"stranger", "malformed", "unrouted"}
  BY DEF Refusals
<1>4. req[c].op \in {"bump", "put", "add", "decide", "cost_get", "provenance_get",
                     "queue_list", "audit_read", "stranger", "malformed", "unrouted",
                     "append"}
  BY OpOfCall
<1>5. /\ c \in Changing <=> req[c].op \in {"bump", "put", "add", "decide"}
      /\ c \in Reading <=>
            req[c].op \in {"cost_get", "provenance_get", "queue_list", "audit_read"}
  BY <1>1, <1>2 DEF Changing, Reading
<1>6. FileOf(c) = IF c \in Changing THEN Changes[req[c].op]
                  ELSE IF c \in Reading THEN Reads[req[c].op] ELSE "audit"
  BY <1>1, <1>2, <1>4, <1>5 DEF FileOf
<1>7. QED
  BY <1>1, <1>2, <1>3, <1>4, <1>5, <1>6 DEF Files

-----------------------------------------------------------------------------
(* Lines. *)

Text == Seq(SUBSET Calls)

Distinct(s) == \A i, j \in DOMAIN s : s[i] \cap s[j] # {} => i = j

LEMMA InContents ==
    ASSUME NEW s, NEW u
    PROVE  u \in Contents(s) <=> \E i \in DOMAIN s : u \in s[i]
BY DEF Contents, Range

LEMMA NoLines == Contents(<<>>) = {} /\ Distinct(<<>>) /\ <<>> \in Text /\ Len(<<>>) = 0
BY EmptySeq DEF Contents, Range, Distinct, Text

LEMMA TextFacts ==
    ASSUME NEW s \in Text
    PROVE  /\ Len(s) \in Nat /\ DOMAIN s = 1 .. Len(s)
           /\ \A i \in DOMAIN s : s[i] \in SUBSET Calls
           /\ s # <<>> => Len(s) \in DOMAIN s
<1>1. Len(s) \in Nat /\ DOMAIN s = 1 .. Len(s) /\ \A i \in DOMAIN s : s[i] \in SUBSET Calls
  BY LenProperties, ElementOfSeq DEF Text
<1>2. s # <<>> => Len(s) # 0
  BY EmptySeq DEF Text
<1>3. QED
  BY <1>1, <1>2

LEMMA AppendLine ==
    ASSUME NEW s \in Text, NEW l \in SUBSET Calls
    PROVE  LET t == Append(s, l)
           IN  /\ t \in Text /\ Len(t) = Len(s) + 1
               /\ DOMAIN t = DOMAIN s \union {Len(s) + 1} /\ Len(s) + 1 \notin DOMAIN s
               /\ \A i \in DOMAIN s : t[i] = s[i]
               /\ t[Len(s) + 1] = l
               /\ Contents(t) = Contents(s) \union l
               /\ Distinct(s) /\ l \cap Contents(s) = {} => Distinct(t)
<1> DEFINE t == Append(s, l)
<1>1. Len(s) \in Nat /\ DOMAIN s = 1 .. Len(s)
  BY TextFacts
<1>2. /\ t \in Text /\ Len(t) = Len(s) + 1 /\ DOMAIN t = 1 .. Len(s) + 1
      /\ \A i \in 1 .. Len(s) : t[i] = s[i]
      /\ t[Len(s) + 1] = l
  BY <1>1, AppendProperties, LenProperties DEF Text
<1>3. DOMAIN t = DOMAIN s \union {Len(s) + 1} /\ Len(s) + 1 \notin DOMAIN s
  BY <1>1, <1>2
<1>4. /\ \A i \in DOMAIN s : t[i] = s[i]
      /\ t[Len(s) + 1] = l
  BY <1>1, <1>2
<1> HIDE DEF t
<1>5. Contents(t) = Contents(s) \union l
  BY <1>3, <1>4, InContents
<1>6. ASSUME Distinct(s), l \cap Contents(s) = {}
      PROVE  Distinct(t)
  <2>1. \A i \in DOMAIN s : s[i] \cap l = {}
    BY <1>6, InContents
  <2>2. QED
    BY <1>3, <1>4, <1>6, <2>1 DEF Distinct
<1>7. QED
  BY <1>2, <1>3, <1>4, <1>5, <1>6 DEF t

\* The lines an update can change, or add.
Slots(s) == 1 .. Len(s) + 1

\* What an update does to the lines.
Updated(s, t, n, u) ==
    /\ t \in Text
    /\ DOMAIN t = DOMAIN s \union {n}
    /\ \A i \in DOMAIN s : i # n => t[i] = s[i]
    /\ n \in DOMAIN s => t[n] = s[n] \union {u}
    /\ n \notin DOMAIN s => t[n] = {u}
    /\ Contents(t) = Contents(s) \union {u}
    /\ Distinct(s) /\ u \notin Contents(s) => Distinct(t)

LEMMA WithFacts ==
    ASSUME NEW s \in Text, NEW u \in Calls, NEW n \in Slots(s)
    PROVE  Updated(s, With(s, n, u), n, u)
<1> DEFINE t == With(s, n, u)
<1>1. Len(s) \in Nat /\ DOMAIN s = 1 .. Len(s) /\ \A i \in DOMAIN s : s[i] \in SUBSET Calls
  BY TextFacts
<1>5. n \in 1 .. Len(s) + 1
  BY DEF Slots
<1>2. CASE n \in DOMAIN s
  <2>1. t = [s EXCEPT ![n] = @ \union {u}]
    BY <1>2 DEF With
  <2>2. t \in Text
    BY <1>1, <1>2, <2>1, ExceptSeq DEF Text
  <2>3. /\ DOMAIN t = DOMAIN s /\ t[n] = s[n] \union {u}
        /\ \A i \in DOMAIN s \ {n} : t[i] = s[i]
    BY <1>1, <1>2, <2>1
  <2> HIDE DEF t
  <2>4. Contents(t) = Contents(s) \union {u}
    BY <1>2, <2>3, InContents
  <2>5. ASSUME Distinct(s), u \notin Contents(s)
        PROVE  Distinct(t)
    <3>1. \A i \in DOMAIN s : u \notin s[i]
      BY <2>5, InContents
    <3>2. QED
      BY <1>2, <2>3, <2>5, <3>1 DEF Distinct
  <2>6. QED
    BY <1>2, <2>2, <2>3, <2>4, <2>5 DEF t, Updated
<1>3. CASE n \notin DOMAIN s
  <2>1. t = Append(s, {u}) /\ n = Len(s) + 1
    BY <1>1, <1>3, <1>5 DEF With
  <2>2. QED
    BY <1>3, <2>1, AppendLine DEF Updated
<1>4. QED
  BY <1>2, <1>3

LEMMA PrefixFacts ==
    ASSUME NEW s \in Text, NEW n \in 0 .. Len(s)
    PROVE  LET t == SubSeq(s, 1, n)
           IN  /\ t \in Text /\ Len(t) = n
               /\ DOMAIN t = 1 .. n /\ DOMAIN t \subseteq DOMAIN s
               /\ \A i \in DOMAIN t : t[i] = s[i]
               /\ Contents(t) \subseteq Contents(s)
               /\ Distinct(s) => Distinct(t)
<1> DEFINE t == SubSeq(s, 1, n)
<1>1. /\ Len(s) \in Nat /\ DOMAIN s = 1 .. Len(s)
      /\ \A i \in 1 .. n : s[i] \in SUBSET Calls
  BY TextFacts
<1>2. /\ t \in Text /\ Len(t) = n
      /\ \A i \in 1 .. n : t[i] = s[i]
  BY <1>1, SubSeqProperties DEF Text
<1>3. DOMAIN t = 1 .. n /\ DOMAIN t \subseteq DOMAIN s
  BY <1>1, <1>2, TextFacts
<1> HIDE DEF t
<1>4. Contents(t) \subseteq Contents(s)
  <2>1. ASSUME NEW u \in Contents(t)
        PROVE  u \in Contents(s)
    <3>1. PICK i \in DOMAIN t : u \in t[i]
      BY <2>1, InContents
    <3>2. i \in DOMAIN s /\ u \in s[i]
      BY <1>2, <1>3, <3>1
    <3>3. QED
      BY <3>2, InContents
  <2>2. QED
    BY <2>1
<1>5. Distinct(s) => Distinct(t)
  BY <1>2, <1>3 DEF Distinct
<1>6. QED
  BY <1>2, <1>3, <1>4, <1>5 DEF t

LEMMA WholePrefix ==
    ASSUME NEW s \in Text
    PROVE  SubSeq(s, 1, Len(s)) = s
<1>1. Len(s) \in Nat /\ Len(s) \in 0 .. Len(s)
  BY TextFacts
<1>2. /\ SubSeq(s, 1, Len(s)) \in Text /\ Len(SubSeq(s, 1, Len(s))) = Len(s)
      /\ \A i \in 1 .. Len(s) : SubSeq(s, 1, Len(s))[i] = s[i]
  BY <1>1, PrefixFacts
<1>3. QED
  BY <1>2, SeqEqual DEF Text

\* What a failing or succeeding append does to the audit log.
LEMMA ExtendedFacts ==
    ASSUME NEW s \in Text, NEW text \in SUBSET Calls, torn \in BOOLEAN, torn => s # <<>>
    PROVE  LET t == Extended(s, text)
           IN  /\ t \in Text /\ t # <<>>
               /\ Contents(t) \subseteq Contents(s) \union text
               /\ Distinct(s) /\ text \cap Contents(s) = {} => Distinct(t)
               /\ ~torn => t = Append(s, text) /\ Contents(t) = Contents(s) \union text
               /\ torn => \A u \in Contents(s) : u \in Contents(t) \/ u \in s[Len(s)]
               /\ t[Len(t)] \subseteq text
<1> DEFINE t == Extended(s, text)
<1>1. Len(s) \in Nat /\ DOMAIN s = 1 .. Len(s)
  BY TextFacts
<1>2. CASE torn
  <2>1. t = [s EXCEPT ![Len(s)] = {}] /\ Len(s) \in DOMAIN s
    BY <1>2, TextFacts DEF Extended
  <2>2. t \in Text
    BY <2>1, <1>1, ExceptSeq DEF Text
  <2>3. /\ DOMAIN t = DOMAIN s /\ t[Len(s)] = {}
        /\ \A i \in DOMAIN s \ {Len(s)} : t[i] = s[i]
    BY <2>1
  <2>4. Len(t) = Len(s) /\ t # <<>>
    BY <1>1, <2>1, <2>2, <2>3, TextFacts, NoLines
  <2> HIDE DEF t
  <2>5. /\ Contents(t) \subseteq Contents(s)
        /\ \A u \in Contents(s) : u \in Contents(t) \/ u \in s[Len(s)]
    BY <2>1, <2>3, InContents
  <2>6. Distinct(s) => Distinct(t)
    BY <2>3 DEF Distinct
  <2>7. QED
    BY <1>2, <2>2, <2>3, <2>4, <2>5, <2>6 DEF t
<1>3. CASE ~torn
  <2>1. t = Append(s, text)
    BY <1>3 DEF Extended
  <2>2. /\ Append(s, text) \in Text /\ Len(Append(s, text)) = Len(s) + 1
        /\ Append(s, text)[Len(s) + 1] = text
        /\ Contents(Append(s, text)) = Contents(s) \union text
        /\ Distinct(s) /\ text \cap Contents(s) = {} => Distinct(Append(s, text))
    BY AppendLine
  <2>3. Append(s, text) # <<>>
    BY <1>1, <2>2, NoLines
  <2>4. QED
    BY <1>3, <2>1, <2>2, <2>3
<1>4. QED
  BY <1>2, <1>3

-----------------------------------------------------------------------------
(* Types, and who is where. *)

LEMMA ReplyTypes ==
    ASSUME TypeOK, NEW c \in Calls, NEW s \in Statuses, Reply(c, s)
    PROVE  status' \in [Calls -> Statuses] /\ thread' \in [Calls -> Places]
BY DEF TypeOK, Reply, Places

LEMMA LoadTypes ==
    ASSUME TypeOK, NEW c \in Calls
    PROVE  files[FileOf(c)] \in Text /\ Judgement(c, files[FileOf(c)]) \in {0, 404, 409}
BY FileOfCall DEF TypeOK, Judgement, Text

\* A rewrite changes one line of the text it has loaded, or adds one.
LEMMA NewLine ==
    ASSUME TypeOK, NEW c \in Calls
    PROVE  /\ data[c] \in Text
           /\ \E n \in Slots(data[c]) :
                 /\ New(c) = With(data[c], n, c)
                 /\ req[c].op # "decide" => n \notin DOMAIN data[c]
                 /\ req[c].op = "decide" /\ (\E a \in Contents(data[c]) : Adds(a, c)) =>
                       n \in DOMAIN data[c] /\ \E a \in data[c][n] : Adds(a, c)
<1> DEFINE s == data[c]
           line == IF req[c].op = "decide"
                   THEN CHOOSE i \in DOMAIN s : \E a \in s[i] : Adds(a, c)
                   ELSE Len(s) + 1
<1>1. s \in Text
  BY DEF TypeOK, Text
<1>2. Len(s) \in Nat /\ DOMAIN s = 1 .. Len(s)
  BY <1>1, TextFacts
<1>3. New(c) = With(s, line, c)
  BY DEF New
<1>4. req[c].op # "decide" => line \notin DOMAIN s
  BY <1>2
<1>5. ASSUME req[c].op = "decide", \E a \in Contents(s) : Adds(a, c)
      PROVE  line \in DOMAIN s /\ \E a \in s[line] : Adds(a, c)
  <2>1. \E i \in DOMAIN s : \E a \in s[i] : Adds(a, c)
    BY <1>5, InContents
  <2>2. QED
    BY <1>5, <2>1
<1> HIDE DEF line
<1>6. CASE line \in DOMAIN s
  <2>1. line \in Slots(s)
    BY <1>2, <1>6 DEF Slots
  <2>2. QED
    BY <1>1, <1>3, <1>4, <1>5, <1>6, <2>1
<1>7. CASE line \notin DOMAIN s
  <2>1. Len(s) + 1 \in Slots(s) /\ Len(s) + 1 \notin DOMAIN s
    BY <1>2 DEF Slots
  <2>2. With(s, line, c) = With(s, Len(s) + 1, c)
    BY <1>7, <2>1 DEF With
  <2>3. ~(req[c].op = "decide" /\ \E a \in Contents(s) : Adds(a, c))
    BY <1>5, <1>7
  <2>4. QED
    BY <1>1, <1>3, <2>1, <2>2, <2>3
<1>8. QED
  BY <1>6, <1>7

\* The whole and the pieces that a rewrite puts into the file.
LEMMA Written ==
    ASSUME TypeOK, NEW c \in Calls
    PROVE  /\ New(c) \in Text
           /\ Contents(New(c)) = Contents(data[c]) \union {c}
           /\ Distinct(data[c]) /\ c \notin Contents(data[c]) => Distinct(New(c))
           /\ \A n \in Len(files[FileOf(c)]) .. Len(New(c)) :
                 LET t == SubSeq(New(c), 1, n)
                 IN  /\ n \in 0 .. Len(New(c)) /\ t \in Text
                     /\ Contents(t) \subseteq Contents(data[c]) \union {c}
                     /\ Distinct(data[c]) /\ c \notin Contents(data[c]) => Distinct(t)
<1>1. PICK n \in Slots(data[c]) : New(c) = With(data[c], n, c)
  BY NewLine
<1>2. data[c] \in Text
  BY NewLine
<1>3. /\ New(c) \in Text
      /\ Contents(New(c)) = Contents(data[c]) \union {c}
      /\ Distinct(data[c]) /\ c \notin Contents(data[c]) => Distinct(New(c))
  <2> DEFINE s == data[c]
  <2>1. s \in Text /\ n \in Slots(s)
    BY <1>2
  <2> HIDE DEF s
  <2>2. Updated(s, With(s, n, c), n, c)
    BY <2>1, WithFacts
  <2>3. QED
    BY <1>1, <2>2 DEF s, Updated
<1>4. Len(files[FileOf(c)]) \in Nat /\ Len(New(c)) \in Nat
  BY <1>3, LoadTypes, TextFacts
<1>5. ASSUME NEW m \in Len(files[FileOf(c)]) .. Len(New(c))
      PROVE  LET t == SubSeq(New(c), 1, m)
             IN  /\ m \in 0 .. Len(New(c)) /\ t \in Text
                 /\ Contents(t) \subseteq Contents(data[c]) \union {c}
                 /\ Distinct(data[c]) /\ c \notin Contents(data[c]) => Distinct(t)
  <2>1. m \in 0 .. Len(New(c))
    BY <1>4
  <2>2. /\ SubSeq(New(c), 1, m) \in Text
        /\ Contents(SubSeq(New(c), 1, m)) \subseteq Contents(New(c))
        /\ Distinct(New(c)) => Distinct(SubSeq(New(c), 1, m))
    BY <1>3, <2>1, PrefixFacts
  <2>3. QED
    BY <1>3, <2>1, <2>2
<1>6. QED
  BY <1>3, <1>5

\* The lines of a rewrite.
LEMMA LinesOfNew ==
    ASSUME TypeOK, NEW c \in Calls
    PROVE  \E n \in Slots(data[c]) :
              /\ Updated(data[c], New(c), n, c)
              /\ req[c].op # "decide" => n \notin DOMAIN data[c]
              /\ req[c].op = "decide" /\ (\E a \in Contents(data[c]) : Adds(a, c)) =>
                    n \in DOMAIN data[c] /\ \E a \in data[c][n] : Adds(a, c)
BY NewLine, WithFacts

\* The audit log after an append, or a part of it.
LEMMA AuditExtended ==
    ASSUME TypeOK, NEW text \in SUBSET Calls
    PROVE  LET s == files["audit"]
               t == Extended(s, text)
           IN  /\ s \in Text /\ t \in Text /\ t # <<>>
               /\ Contents(t) \subseteq Contents(s) \union text
               /\ Distinct(s) /\ text \cap Contents(s) = {} => Distinct(t)
               /\ ~torn => t = Append(s, text) /\ Contents(t) = Contents(s) \union text
               /\ torn => \A u \in Contents(s) : u \in Contents(t) \/ u \in s[Len(s)]
               /\ t[Len(t)] \subseteq text
<1>1. files["audit"] \in Text /\ torn \in BOOLEAN /\ (torn => files["audit"] # <<>>)
  BY DEF TypeOK, Text, Files
<1>2. QED
  BY <1>1, ExtendedFacts

LEMMA CutOffTypes ==
    ASSUME TypeOK, NEW c \in Calls, CutOff(c)
    PROVE  /\ files' \in [Files -> Seq(SUBSET Calls)] /\ torn' \in BOOLEAN
           /\ applied' \subseteq Calls /\ (torn' => files'["audit"] # <<>>)
<1>1. CASE UNCHANGED <<files, torn, applied>>
  BY <1>1 DEF TypeOK
<1>2. CASE ~UNCHANGED <<files, torn, applied>>
  <2>1. PICK text \in {{}, {c}} :
             /\ files' = [files EXCEPT !["audit"] = Extended(@, text)]
             /\ torn' \in IF text = {} THEN {TRUE} ELSE BOOLEAN
             /\ applied' = applied \union text
    BY <1>2 DEF CutOff
  <2>2. text \in SUBSET Calls
    OBVIOUS
  <2>3. Extended(files["audit"], text) \in Text /\ Extended(files["audit"], text) # <<>>
    BY <2>2, AuditExtended
  <2>4. QED
    BY <2>1, <2>2, <2>3 DEF TypeOK, Files, Text
<1>3. QED
  BY <1>1, <1>2

Inside == {"load", "truncate", "write"}

Owners ==
    \A c \in Calls :
        /\ thread[c] \in Inside => lock = c
        /\ thread[c] \in Inside \union {"lock"} => c \in Changing
        /\ thread[c] = "read" => c \in Reading
        /\ thread[c] = "append" => req[c].op = "append"

LEMMA TypeStep == TypeOK /\ Owners /\ [Next]_vars => TypeOK'
<1> SUFFICES ASSUME TypeOK, Owners, [Next]_vars
             PROVE  TypeOK'
  OBVIOUS
<1>1. ASSUME NEW c \in Calls, Send(c)
      PROVE  TypeOK'
  BY <1>1 DEF TypeOK, Send, Acked, Knowledge
<1>2. ASSUME NEW c \in Calls, Fail(c)
      PROVE  TypeOK'
  BY <1>2 DEF TypeOK, Fail, Knowledge
<1>3. ASSUME NEW c \in Calls, Arrive(c)
      PROVE  TypeOK'
  <2>1. CASE req[c].op \in DOMAIN Refusals
    <3>1. Refusals[req[c].op] \in Statuses
      BY <2>1, FileOfCall DEF TypeOK, Refusals, Statuses
    <3>2. Reply(c, Refusals[req[c].op])
      BY <1>3, <2>1 DEF Arrive
    <3>3. QED
      BY <1>3, <3>1, <3>2, ReplyTypes DEF TypeOK, Arrive
  <2>2. CASE req[c].op \notin DOMAIN Refusals
    BY <1>3, <2>2 DEF TypeOK, Arrive, Places
  <2>3. QED
    BY <2>1, <2>2
<1>4. ASSUME NEW c \in Calls, Acquire(c)
      PROVE  TypeOK'
  BY <1>4 DEF TypeOK, Acquire, Places
<1>5. ASSUME NEW c \in Calls, Load(c)
      PROVE  TypeOK'
  <2>1. Judgement(c, files[FileOf(c)]) \in Statuses
    BY LoadTypes DEF Statuses
  <2>2. data' \in [Calls -> Seq(SUBSET Calls)]
    BY <1>5, LoadTypes DEF TypeOK, Load, Text
  <2>3. /\ status' \in [Calls -> Statuses] /\ thread' \in [Calls -> Places]
        /\ lock' \in Calls \union {NoCall}
    BY <1>5, <2>1, ReplyTypes DEF TypeOK, Load, Places
  <2>4. QED
    BY <1>5, <2>2, <2>3 DEF TypeOK, Load
<1>6. ASSUME NEW c \in Calls, Truncate(c)
      PROVE  TypeOK'
  <2>1. FileOf(c) # "audit" /\ FileOf(c) \in Files
    BY <1>6, FileOfCall DEF TypeOK, Owners, Inside, Truncate
  <2>2. QED
    BY <1>6, <2>1, NoLines DEF TypeOK, Truncate, Places, Text, Files
<1>7. ASSUME NEW c \in Calls, Write(c)
      PROVE  TypeOK'
  <2>1. New(c) \in Text /\ New(c) # <<>>
    BY Written, NoLines
  <2>2. status' \in [Calls -> Statuses] /\ thread' \in [Calls -> Places]
    BY <1>7, ReplyTypes DEF Write, Statuses
  <2>3. FileOf(c) # "audit" /\ FileOf(c) \in Files
    BY <1>7, FileOfCall DEF TypeOK, Owners, Inside, Write
  <2>4. /\ files' \in [Files -> Seq(SUBSET Calls)] /\ data' \in [Calls -> Seq(SUBSET Calls)]
        /\ files'["audit"] = files["audit"]
    BY <1>7, <2>1, <2>3, NoLines DEF TypeOK, Write, Text, Files
  <2>5. QED
    BY <1>7, <2>2, <2>4 DEF TypeOK, Write
<1>8. ASSUME NEW c \in Calls, Read(c)
      PROVE  TypeOK'
  <2>1. status' \in [Calls -> Statuses] /\ thread' \in [Calls -> Places]
    BY <1>8, ReplyTypes DEF Read, Statuses
  <2>2. QED
    BY <1>8, <2>1, LoadTypes DEF TypeOK, Read, Text
<1>9. ASSUME NEW c \in Calls, AppendAudit(c)
      PROVE  TypeOK'
  <2>1. status' \in [Calls -> Statuses] /\ thread' \in [Calls -> Places]
    BY <1>9, ReplyTypes DEF AppendAudit, Statuses
  <2>2. Extended(files["audit"], {c}) \in Text
    BY AuditExtended
  <2>3. QED
    BY <1>9, <2>1, <2>2 DEF TypeOK, AppendAudit, Text
<1>10. ASSUME NEW c \in Calls, Fault(c)
       PROVE  TypeOK'
  <2>1. status' \in [Calls -> Statuses] /\ thread' \in [Calls -> Places]
    BY <1>10, ReplyTypes DEF Fault, Statuses
  <2>2. QED
    BY <1>10, <2>1, CutOffTypes DEF TypeOK, Fault
<1>11. ASSUME NEW c \in Calls, Answer(c)
       PROVE  TypeOK'
  BY <1>11 DEF TypeOK, Answer, Places, Statuses, Outcome, Knowledge
<1>12. CASE Crash
  <2>1. thread' \in [Calls -> Places]
    BY <1>12 DEF TypeOK, Crash, Places
  <2>2. status' \in [Calls -> Statuses]
    BY <1>12 DEF Crash, Statuses
  <2>3. faults' \in 0 .. MaxFaults
    BY <1>12 DEF TypeOK, Crash
  <2>4. QED
    BY <1>12, <2>1, <2>2, <2>3, CutOffTypes DEF TypeOK, Crash
<1>13. CASE Restart
  BY <1>13 DEF TypeOK, Restart
<1>14. CASE UNCHANGED vars
  BY <1>14 DEF TypeOK, vars
<1>16. ASSUME NEW c \in Calls, WriteSome(c)
       PROVE  TypeOK'
  <2>1. PICK n \in Len(files[FileOf(c)]) .. Len(New(c)) :
           /\ files' = [files EXCEPT ![FileOf(c)] = SubSeq(New(c), 1, n)]
           /\ applied' = applied \union ({c} \cap Contents(SubSeq(New(c), 1, n)))
    BY <1>16 DEF WriteSome
  <2>2. SubSeq(New(c), 1, n) \in Text
    BY Written
  <2>3. FileOf(c) = "audit" => FALSE
    BY <1>16, FileOfCall DEF TypeOK, Owners, Inside, WriteSome
  <2>4. QED
    BY <1>16, <2>1, <2>2, <2>3, FileOfCall DEF TypeOK, WriteSome, Text
<1>15. QED
  BY <1>1, <1>2, <1>3, <1>4, <1>5, <1>6, <1>7, <1>8, <1>9, <1>10, <1>11, <1>12, <1>13,
     <1>14, <1>16 DEF Next, Proceed

LEMMA TypeInit == Init => TypeOK
<1>1. <<>> \in Seq(SUBSET Calls)
  BY NoLines DEF Text
<1>2. Init => /\ data \in [Calls -> Seq(SUBSET Calls)]
              /\ files \in [Files -> Seq(SUBSET Calls)]
  BY <1>1 DEF Init
<1>3. Init => torn \in BOOLEAN /\ ~torn
  BY Zenon DEF Init
<1>4. QED
  BY <1>2, <1>3 DEF Init, TypeOK, Knowledge, Places, Statuses

-----------------------------------------------------------------------------
(* Who holds the lock, and which request gets where. *)

\* A request and its file stay what they are.
LEMMA Fixed ==
    [Next]_vars =>
        /\ req' = req /\ Changing' = Changing /\ Reading' = Reading
        /\ \A c \in Calls : FileOf(c)' = FileOf(c)
        /\ \A c, d \in Calls : Decides(c, d)' = Decides(c, d) /\ Adds(c, d)' = Adds(c, d)
<1> SUFFICES ASSUME [Next]_vars
             PROVE  req' = req
  BY DEF Changing, Reading, FileOf, Decides, Adds
<1>1. QED
  BY DEF Next, Proceed, Send, Fail, Arrive, Acquire, Load, Truncate, WriteSome, Write, Read,
         AppendAudit, Fault, Answer, Crash, Restart, vars

LEMMA OwnersInit == Init => Owners
BY DEF Init, Owners, Inside

LEMMA OwnersStep == TypeOK /\ Owners /\ [Next]_vars => Owners'
<1> SUFFICES ASSUME TypeOK, Owners, [Next]_vars
             PROVE  Owners'
  OBVIOUS
<1> USE Fixed
<1>1. ASSUME NEW c \in Calls, Send(c)
      PROVE  Owners'
  BY <1>1 DEF TypeOK, Owners, Inside, Send
<1>2. ASSUME NEW c \in Calls, Fail(c)
      PROVE  Owners'
  BY <1>2 DEF TypeOK, Owners, Inside, Fail
<1>3. ASSUME NEW c \in Calls, Arrive(c)
      PROVE  Owners'
  <2>1. req[c].op \notin DOMAIN Refusals /\ c \notin Changing /\ c \notin Reading =>
           req[c].op = "append"
    BY OpOfCall, FileOfCall DEF TypeOK
  <2>2. QED
    BY <1>3, <2>1 DEF TypeOK, Owners, Inside, Arrive, Reply
<1>4. ASSUME NEW c \in Calls, Acquire(c)
      PROVE  Owners'
  BY <1>4 DEF TypeOK, Owners, Inside, Acquire
<1>5. ASSUME NEW c \in Calls, Load(c)
      PROVE  Owners'
  BY <1>5 DEF TypeOK, Owners, Inside, Load, Reply
<1>6. ASSUME NEW c \in Calls, Truncate(c)
      PROVE  Owners'
  BY <1>6 DEF TypeOK, Owners, Inside, Truncate
<1>7. ASSUME NEW c \in Calls, Write(c)
      PROVE  Owners'
  BY <1>7 DEF TypeOK, Owners, Inside, Write, Reply
<1>8. ASSUME NEW c \in Calls, Read(c)
      PROVE  Owners'
  BY <1>8 DEF TypeOK, Owners, Inside, Read, Reply
<1>9. ASSUME NEW c \in Calls, AppendAudit(c)
      PROVE  Owners'
  BY <1>9 DEF TypeOK, Owners, Inside, AppendAudit, Reply
<1>10. ASSUME NEW c \in Calls, Fault(c)
      PROVE  Owners'
  BY <1>10 DEF TypeOK, Owners, Inside, Fault, Reply
<1>11. ASSUME NEW c \in Calls, Answer(c)
      PROVE  Owners'
  BY <1>11 DEF TypeOK, Owners, Inside, Answer
<1>12. CASE Crash
  BY <1>12 DEF TypeOK, Owners, Inside, Crash
<1>13. CASE Restart
  BY <1>13 DEF TypeOK, Owners, Inside, Restart
<1>14. CASE UNCHANGED vars
  BY <1>14 DEF TypeOK, Owners, Inside, vars
<1>16. ASSUME NEW c \in Calls, WriteSome(c)
       PROVE  Owners'
  BY <1>16 DEF TypeOK, Owners, Inside, WriteSome
<1>15. QED
  BY <1>1, <1>2, <1>3, <1>4, <1>5, <1>6, <1>7, <1>8, <1>9, <1>10, <1>11, <1>12, <1>13,
     <1>14, <1>16 DEF Next, Proceed

\* Every variable keeps its type.
THEOREM ServiceTypeCorrect == Spec => []TypeOK
<1>1. QED
  BY TypeInit, OwnersInit, TypeStep, OwnersStep, PTL DEF Spec

-----------------------------------------------------------------------------
(* What the files and the threads hold has been applied, and nothing is applied *)
(* before its thread has done it.                                               *)

Early == {"none", "lock", "load", "truncate", "read", "append"}

Histories ==
    /\ \A f \in Files : Contents(files[f]) \subseteq applied /\ Distinct(files[f])
    /\ \A c \in Calls : Contents(data[c]) \subseteq applied
    /\ \A c \in Calls : thread[c] \in {"truncate", "write"} =>
          c \notin Contents(data[c]) /\ Distinct(data[c])
    /\ \A c \in Calls : thread[c] \in Early => c \notin applied

LEMMA HistoriesInit == Init => Histories
BY NoLines DEF Init, Histories

\* A part of a record, too, is in no log yet.
LEMMA CutOffHistories ==
    ASSUME TypeOK, Histories, NEW c \in Calls, CutOff(c)
    PROVE  /\ \A f \in Files : Contents(files'[f]) \subseteq applied' /\ Distinct(files'[f])
           /\ \A f \in Files \ {"audit"} : files'[f] = files[f]
           /\ applied \subseteq applied' /\ applied' \subseteq applied \union {c}
           /\ thread[c] # "append" => applied' = applied
<1>1. CASE UNCHANGED <<files, torn, applied>>
  BY <1>1 DEF Histories
<1>2. CASE ~UNCHANGED <<files, torn, applied>>
  <2>1. PICK text \in {{}, {c}} :
             /\ files' = [files EXCEPT !["audit"] = Extended(@, text)]
             /\ applied' = applied \union text
    BY <1>2 DEF CutOff
  <2>2. thread[c] = "append" /\ c \notin applied
    BY <1>2 DEF CutOff, Histories, Early
  <2>3. text \in SUBSET Calls /\ text \cap Contents(files["audit"]) = {}
    BY <2>2 DEF Histories, Files
  <2>4. /\ Contents(Extended(files["audit"], text)) \subseteq Contents(files["audit"]) \union text
        /\ Distinct(files["audit"]) /\ text \cap Contents(files["audit"]) = {} =>
              Distinct(Extended(files["audit"], text))
    BY <2>3, AuditExtended
  <2>5. /\ files'["audit"] = Extended(files["audit"], text)
        /\ \A f \in Files \ {"audit"} : files'[f] = files[f]
    BY <2>1 DEF TypeOK, Files
  <2>6. \A f \in Files : Contents(files'[f]) \subseteq applied' /\ Distinct(files'[f])
    BY <2>1, <2>3, <2>4, <2>5 DEF Histories, Files
  <2>7. QED
    BY <2>1, <2>2, <2>5, <2>6
<1>3. QED
  BY <1>1, <1>2

LEMMA HistoriesStep == TypeOK /\ Owners /\ Histories /\ [Next]_vars => Histories'
<1> SUFFICES ASSUME TypeOK, Owners, Histories, [Next]_vars
             PROVE  Histories'
  OBVIOUS
<1> USE Fixed
<1>1. ASSUME NEW c \in Calls, Send(c)
      PROVE  Histories'
  BY <1>1 DEF TypeOK, Owners, Histories, Inside, Early, Send
<1>2. ASSUME NEW c \in Calls, Fail(c)
      PROVE  Histories'
  BY <1>2 DEF TypeOK, Owners, Histories, Inside, Early, Fail
<1>3. ASSUME NEW c \in Calls, Arrive(c)
      PROVE  Histories'
  BY <1>3 DEF TypeOK, Owners, Histories, Inside, Early, Arrive, Reply
<1>4. ASSUME NEW c \in Calls, Acquire(c)
      PROVE  Histories'
  BY <1>4 DEF TypeOK, Owners, Histories, Inside, Early, Acquire
<1>5. ASSUME NEW c \in Calls, Load(c)
      PROVE  Histories'
  <2>1. FileOf(c) \in Files /\ thread[c] = "load"
    BY <1>5, FileOfCall DEF TypeOK, Load
  <2>2. \A d \in Calls : Contents(data'[d]) \subseteq applied'
    BY <1>5, <2>1 DEF TypeOK, Histories, Load
  <2>3. \A d \in Calls \ {c} : thread'[d] = thread[d] /\ data'[d] = data[d]
    BY <1>5 DEF TypeOK, Load, Reply
  <2>4. thread'[c] \in {"truncate", "reply"} /\ data'[c] = files[FileOf(c)]
    BY <1>5 DEF TypeOK, Load, Reply
  <2>5. files' = files /\ applied' = applied /\ c \notin applied
    BY <1>5, <2>1 DEF Histories, Early, Load
  <2>6. QED
    BY <2>1, <2>2, <2>3, <2>4, <2>5 DEF Histories, Early
<1>6. ASSUME NEW c \in Calls, Truncate(c)
      PROVE  Histories'
  BY <1>6, NoLines, FileOfCall DEF TypeOK, Owners, Histories, Inside, Early, Truncate
<1>7. ASSUME NEW c \in Calls, Write(c)
      PROVE  Histories'
  <2>1. /\ FileOf(c) \in Files /\ c \in Changing
        /\ Contents(New(c)) = Contents(data[c]) \union {c} /\ Distinct(New(c))
        /\ Contents(data[c]) \subseteq applied
    BY <1>7, FileOfCall, Written DEF TypeOK, Owners, Histories, Inside, Write
  <2>6. \A f \in Files : Contents(files'[f]) \subseteq applied' /\ Distinct(files'[f])
    BY <1>7, <2>1 DEF TypeOK, Histories, Write
  <2>2. \A d \in Calls : Contents(data'[d]) \subseteq applied'
    BY <1>7, NoLines DEF TypeOK, Histories, Write
  <2>3. \A d \in Calls \ {c} :
           thread'[d] = thread[d] /\ data'[d] = data[d] /\ thread'[d] \notin Inside
    BY <1>7 DEF TypeOK, Owners, Inside, Write, Reply
  <2>4. thread'[c] = "reply"
    BY <1>7 DEF TypeOK, Write, Reply
  <2>5. QED
    BY <1>7, <2>2, <2>3, <2>4, <2>6 DEF Histories, Inside, Early, Write
<1>8. ASSUME NEW c \in Calls, Read(c)
      PROVE  Histories'
  BY <1>8, FileOfCall DEF TypeOK, Owners, Histories, Inside, Early, Read, Reply
<1>9. ASSUME NEW c \in Calls, AppendAudit(c)
      PROVE  Histories'
  <2>1. /\ c \notin applied /\ thread'[c] = "reply" /\ data' = data
        /\ applied' = applied \union {c}
        /\ files' = [files EXCEPT !["audit"] = Extended(@, {c})]
        /\ \A d \in Calls \ {c} : thread'[d] = thread[d]
    BY <1>9 DEF TypeOK, Histories, Early, AppendAudit, Reply
  <2>2. {c} \in SUBSET Calls /\ {c} \cap Contents(files["audit"]) = {} /\ Distinct(files["audit"])
        /\ Contents(files["audit"]) \subseteq applied
    BY <2>1 DEF Histories, Files
  <2>3. /\ Contents(Extended(files["audit"], {c})) \subseteq Contents(files["audit"]) \union {c}
        /\ Distinct(Extended(files["audit"], {c}))
    BY <2>2, AuditExtended
  <2>4. \A f \in Files : Contents(files'[f]) \subseteq applied' /\ Distinct(files'[f])
    BY <2>1, <2>2, <2>3 DEF TypeOK, Histories
  <2>5. QED
    BY <2>1, <2>4 DEF Histories, Early
<1>10. ASSUME NEW c \in Calls, Fault(c)
      PROVE  Histories'
  BY <1>10, CutOffHistories DEF TypeOK, Owners, Histories, Inside, Early, Fault, Reply
<1>11. ASSUME NEW c \in Calls, Answer(c)
      PROVE  Histories'
  BY <1>11 DEF TypeOK, Owners, Histories, Inside, Early, Answer
<1>12. CASE Crash
  <2>1. PICK c \in Calls : CutOff(c)
    BY <1>12 DEF Crash
  <2>2. /\ data' = data
        /\ \A d \in Calls : thread'[d] \in {"none", "done"} /\ (thread'[d] = "none" <=> thread[d] = "none")
    BY <1>12 DEF TypeOK, Crash
  <2>3. /\ \A f \in Files : Contents(files'[f]) \subseteq applied' /\ Distinct(files'[f])
        /\ applied \subseteq applied' /\ applied' \subseteq applied \union {c}
        /\ thread[c] # "append" => applied' = applied
    BY <2>1, CutOffHistories
  <2>4. QED
    BY <2>2, <2>3 DEF Histories, Early
<1>13. CASE Restart
  BY <1>13 DEF TypeOK, Owners, Histories, Inside, Early, Restart
<1>14. CASE UNCHANGED vars
  BY <1>14 DEF TypeOK, Owners, Histories, Inside, Early, vars
<1>16. ASSUME NEW c \in Calls, WriteSome(c)
       PROVE  Histories'
  <2>1. PICK n \in Len(files[FileOf(c)]) .. Len(New(c)) :
           /\ files' = [files EXCEPT ![FileOf(c)] = SubSeq(New(c), 1, n)]
           /\ applied' = applied \union ({c} \cap Contents(SubSeq(New(c), 1, n)))
    BY <1>16 DEF WriteSome
  <2>2. /\ thread[c] = "write" /\ FileOf(c) \in Files /\ thread' = thread /\ data' = data
        /\ Contents(data[c]) \subseteq applied /\ c \notin Contents(data[c]) /\ Distinct(data[c])
    BY <1>16, FileOfCall DEF TypeOK, Histories, WriteSome
  <2>3. /\ Contents(SubSeq(New(c), 1, n)) \subseteq Contents(data[c]) \union {c}
        /\ Distinct(SubSeq(New(c), 1, n))
    BY <2>2, Written
  <2>4. \A f \in Files : Contents(files'[f]) \subseteq applied' /\ Distinct(files'[f])
    BY <2>1, <2>2, <2>3 DEF TypeOK, Histories
  <2>5. QED
    BY <2>1, <2>2, <2>4 DEF Histories, Early
<1>15. QED
  BY <1>1, <1>2, <1>3, <1>4, <1>5, <1>6, <1>7, <1>8, <1>9, <1>10, <1>11, <1>12, <1>13,
     <1>14, <1>16 DEF Next, Proceed

-----------------------------------------------------------------------------
(* The queue: whoever finds an item's `add` in it finds every decision on the item *)
(* in the same line, though a rewrite that fails costs some items or all of them.  *)

Closed(s, done) == \A i \in DOMAIN s : \A a \in s[i], d \in done : Adds(a, d) => d \in s[i]

QueueIn(place, log, copy, done) ==
    /\ Closed(log["queue"], done)
    /\ \A c \in Calls : place[c] \in {"truncate", "write"} =>
          /\ FileOf(c) = "queue" => Closed(copy[c], done \ {c})
          /\ req[c].op = "decide" => \E a \in Contents(copy[c]) : Adds(a, c)
          /\ \A d \in done \ {c} : ~Decides(c, d) /\ ~Adds(c, d)
    /\ \A d \in done : req[d].op = "decide" => \E a \in done : Adds(a, d)
    /\ \A c, d \in done : Decides(c, d) => c = d

Queue == QueueIn(thread, files, data, applied)

LEMMA QueueInit == Init => Queue
BY NoLines, EmptySeq DEF Init, Queue, QueueIn, Closed, Files

\* An item is added by one call.
LEMMA AddedOnce ==
    ASSUME req \in Workloads, NEW a \in Calls, NEW b \in Calls, NEW d \in Calls,
           Adds(a, d), Adds(b, d)
    PROVE  a = b
BY DEF Adds

LEMMA Bystander ==
    ASSUME NEW s, NEW done, NEW c, \A d \in Calls : ~Adds(d, c),
           Closed(s, done), \A i \in DOMAIN s : s[i] \subseteq Calls
    PROVE  Closed(s, done \union {c})
BY DEF Closed

\* A complete rewrite and every piece of it has each decision in the line of its item.
LEMMA NewClosed ==
    ASSUME TypeOK, Owners, Histories, Queue, NEW c \in Calls, thread[c] = "write",
           FileOf(c) = "queue"
    PROVE  /\ Closed(New(c), applied \union {c})
           /\ \A n \in 0 .. Len(New(c)) : \A done :
                 done \subseteq applied \union {c} => Closed(SubSeq(New(c), 1, n), done)
<1> DEFINE s == data[c]
           t == New(c)
<1>1. /\ s \in Text /\ Distinct(s) /\ c \notin Contents(s)
      /\ Closed(s, applied \ {c})
      /\ \A d \in applied \ {c} : ~Adds(c, d)
      /\ req[c].op = "decide" => \E a \in Contents(s) : Adds(a, c)
  BY NewLine DEF Histories, Queue, QueueIn
<1>2. PICK n \in Slots(s) :
         /\ Updated(s, t, n, c)
         /\ req[c].op = "decide" => n \in DOMAIN s /\ \E a \in s[n] : Adds(a, c)
  BY <1>1, LinesOfNew
<1> HIDE DEF s, t
<1>3. /\ t \in Text /\ DOMAIN t = DOMAIN s \union {n}
      /\ \A i \in DOMAIN s : i # n => t[i] = s[i]
      /\ n \in DOMAIN s => t[n] = s[n] \union {c}
      /\ n \notin DOMAIN s => t[n] = {c}
  BY <1>2 DEF Updated
<1>4. \A i \in DOMAIN s : s[i] \in SUBSET Calls
  BY <1>1, TextFacts
<1>5. req \in Workloads /\ applied \subseteq Calls
  BY DEF TypeOK
<1>6. Closed(t, applied \union {c})
  <2>1. SUFFICES ASSUME NEW i \in DOMAIN t, NEW a \in t[i], NEW d \in applied \union {c},
                        Adds(a, d)
                 PROVE  d \in t[i]
    BY DEF Closed
  <2>2. CASE i \in DOMAIN s /\ a \in s[i] /\ d # c
    BY <1>1, <1>3, <2>1, <2>2 DEF Closed
  <2>3. CASE i \in DOMAIN s /\ a \in s[i] /\ d = c
    <3>1. req[c].op = "decide"
      BY <2>1, <2>3 DEF Adds
    <3>2. PICK b \in s[n] : Adds(b, c) /\ n \in DOMAIN s
      BY <1>2, <3>1
    <3>3. a \in Calls /\ b \in Calls
      BY <1>4, <2>3, <3>2
    <3>4. a = b
      BY <1>5, <2>1, <2>3, <3>2, <3>3, AddedOnce
    <3>5. i = n
      BY <1>1, <2>3, <3>2, <3>4 DEF Distinct
    <3>6. QED
      BY <1>3, <2>3, <3>5
  <2>4. CASE a = c
    BY <1>1, <2>1, <2>4 DEF Adds
  <2>5. QED
    BY <1>3, <2>1, <2>2, <2>3, <2>4
<1>7. ASSUME NEW m \in 0 .. Len(t), NEW done, done \subseteq applied \union {c}
      PROVE  Closed(SubSeq(t, 1, m), done)
  <2>1. t \in Text
    BY <1>3
  <2>3. /\ DOMAIN SubSeq(t, 1, m) \subseteq DOMAIN t
        /\ \A i \in DOMAIN SubSeq(t, 1, m) : SubSeq(t, 1, m)[i] = t[i]
    BY <2>1, PrefixFacts
  <2>2. QED
    BY <1>6, <1>7, <2>3 DEF Closed
<1>8. QED
  BY <1>6, <1>7 DEF t

\* What happens to the audit log changes nothing about the queue.
LEMMA AuditChange ==
    ASSUME TypeOK, Owners, Histories, Queue, NEW c \in Calls, thread[c] = "append",
           files'["queue"] = files["queue"], data' = data,
           applied \subseteq applied', applied' \subseteq applied \union {c},
           \A d \in Calls : thread'[d] \in {"truncate", "write"} => thread'[d] = thread[d]
    PROVE  QueueIn(thread', files', data', applied')
<1>1. req[c].op = "append"
  BY DEF Owners
<1>2. \A d \in Calls : ~Decides(c, d) /\ ~Decides(d, c) /\ ~Adds(d, c) /\ ~Adds(c, d)
  BY <1>1 DEF Decides, Adds
<1>3. /\ \A s \in Text : \A done : Closed(s, done) => Closed(s, done \union {c})
      /\ files["queue"] \in Text /\ \A d \in Calls : data[d] \in Text
  <2>1. files["queue"] \in Text /\ \A d \in Calls : data[d] \in Text
    BY DEF TypeOK, Text, Files
  <2>2. ASSUME NEW s \in Text, NEW done, Closed(s, done)
        PROVE  Closed(s, done \union {c})
    BY <1>2, <2>2, Bystander, TextFacts
  <2>3. QED
    BY <2>1, <2>2
<1>4. Closed(files'["queue"], applied')
  <2>1. Closed(files["queue"], applied \union {c})
    BY <1>3 DEF Queue, QueueIn
  <2>2. QED
    BY <2>1 DEF Closed
<1>5. ASSUME NEW d \in Calls, thread'[d] \in {"truncate", "write"}, FileOf(d) = "queue"
      PROVE  Closed(data'[d], applied' \ {d})
  <2>1. Closed(data[d], (applied \ {d}) \union {c})
    BY <1>3, <1>5 DEF Queue, QueueIn
  <2>2. QED
    BY <2>1 DEF Closed
<1>6. ASSUME NEW d \in Calls, thread'[d] \in {"truncate", "write"}
      PROVE  /\ req[d].op = "decide" => \E a \in Contents(data'[d]) : Adds(a, d)
             /\ \A e \in applied' \ {d} : ~Decides(d, e) /\ ~Adds(d, e)
  <2>1. thread[d] \in {"truncate", "write"}
    BY <1>6
  <2>2. /\ req[d].op = "decide" => \E a \in Contents(data[d]) : Adds(a, d)
        /\ \A e \in applied \ {d} : ~Decides(d, e) /\ ~Adds(d, e)
    BY <2>1 DEF Queue, QueueIn
  <2>3. \A e \in applied' : e \in applied \/ e = c
    OBVIOUS
  <2>4. QED
    BY <1>2, <2>2, <2>3
<1>7. \A d \in applied' : req[d].op = "decide" => \E a \in applied' : Adds(a, d)
  BY <1>1 DEF Queue, QueueIn
<1>8. \A d, e \in applied' : Decides(d, e) => d = e
  <2>1. applied \subseteq Calls /\ \A e \in applied' : e \in applied \/ e = c
    BY DEF TypeOK
  <2>2. \A d, e \in applied : Decides(d, e) => d = e
    BY DEF Queue, QueueIn
  <2>3. QED
    BY <1>2, <2>1, <2>2
<1>9. QED
  BY <1>4, <1>5, <1>6, <1>7, <1>8 DEF QueueIn

LEMMA CutOffChange ==
    ASSUME TypeOK, Owners, Histories, Queue, NEW c \in Calls, CutOff(c), data' = data,
           \A d \in Calls : thread'[d] \in {"truncate", "write"} => thread'[d] = thread[d]
    PROVE  QueueIn(thread', files', data', applied')
<1>1. CASE thread[c] = "append"
  <2>1. files'["queue"] = files["queue"]
    BY CutOffHistories DEF Files
  <2>2. applied \subseteq applied' /\ applied' \subseteq applied \union {c}
    BY CutOffHistories
  <2>3. QED
    BY <1>1, <2>1, <2>2, AuditChange
<1>2. CASE thread[c] # "append"
  <2>1. files' = files /\ applied' = applied
    BY <1>2 DEF CutOff
  <2>2. QED
    BY <2>1 DEF Queue, QueueIn
<1>3. QED
  BY <1>1, <1>2

LEMMA QueueStep == TypeOK /\ Owners /\ Histories /\ Queue /\ [Next]_vars => Queue'
<1> SUFFICES ASSUME TypeOK, Owners, Histories, Queue, [Next]_vars
             PROVE  QueueIn(thread', files', data', applied')
  BY Fixed DEF Queue, QueueIn, Closed, FileOf, Adds, Decides
<1>1. ASSUME NEW c \in Calls, Send(c)
      PROVE  QueueIn(thread', files', data', applied')
  BY <1>1 DEF TypeOK, Queue, QueueIn, Closed, Send
<1>2. ASSUME NEW c \in Calls, Fail(c)
      PROVE  QueueIn(thread', files', data', applied')
  BY <1>2 DEF TypeOK, Queue, QueueIn, Closed, Fail
<1>3. ASSUME NEW c \in Calls, Arrive(c)
      PROVE  QueueIn(thread', files', data', applied')
  BY <1>3 DEF TypeOK, Queue, QueueIn, Closed, Arrive, Reply
<1>4. ASSUME NEW c \in Calls, Acquire(c)
      PROVE  QueueIn(thread', files', data', applied')
  BY <1>4 DEF TypeOK, Queue, QueueIn, Closed, Acquire
<1>5. ASSUME NEW c \in Calls, Load(c)
      PROVE  QueueIn(thread', files', data', applied')
  <2> DEFINE s == files[FileOf(c)]
  <2>1. thread[c] = "load" /\ s \in Text /\ Contents(s) \subseteq applied /\ c \notin applied
    BY <1>5, LoadTypes, FileOfCall DEF TypeOK, Histories, Early, Load
  <2>2. CASE Judgement(c, s) # 0
    <3>1. data' = [data EXCEPT ![c] = s] /\ thread' = [thread EXCEPT ![c] = "reply"]
      BY <1>5, <2>2 DEF Load, Reply
    <3>2. QED
      BY <1>5, <3>1 DEF TypeOK, Queue, QueueIn, Closed, Load
  <2>3. CASE Judgement(c, s) = 0
    <3>1. data' = [data EXCEPT ![c] = s] /\ thread' = [thread EXCEPT ![c] = "truncate"]
      BY <1>5, <2>3 DEF Load, Reply
    <3>2. req[c].op = "decide" => FileOf(c) = "queue" /\ \E a \in Contents(s) : Adds(a, c)
      BY <2>3, FileOfCall DEF TypeOK, Judgement
    <3>3. \A d \in Contents(s) : ~Decides(c, d)
      BY <2>3 DEF Judgement
    <3>4. ASSUME NEW d \in applied, Decides(c, d)
          PROVE  FALSE
      <4>1. PICK a \in Contents(s) : Adds(a, c)
        BY <3>2, <3>4 DEF Decides
      <4>2. PICK i \in DOMAIN s : a \in s[i]
        BY <4>1, InContents
      <4>3. Adds(a, d)
        BY <3>4, <4>1 DEF Adds, Decides
      <4>4. d \in s[i]
        BY <3>2, <3>4, <4>2, <4>3 DEF Queue, QueueIn, Closed, Decides
      <4>5. d \in Contents(s)
        BY <4>2, <4>4, InContents
      <4>6. QED
        BY <3>3, <3>4, <4>5
    <3>5. FileOf(c) = "queue" => Closed(s, applied \ {c})
      BY DEF Queue, QueueIn, Closed
    <3>6. ASSUME NEW d \in applied, Adds(c, d)
          PROVE  FALSE
      <4>1. PICK a \in applied : Adds(a, d)
        BY <3>6 DEF Queue, QueueIn, Adds
      <4>2. a = c
        BY <3>6, <4>1, AddedOnce DEF TypeOK
      <4>3. QED
        BY <2>1, <4>1, <4>2
    <3>7. QED
      <4>1. data'[c] = s /\ \A d \in Calls \ {c} : thread'[d] = thread[d] /\ data'[d] = data[d]
        BY <3>1 DEF TypeOK
      <4>2. files' = files /\ applied' = applied
        BY <1>5 DEF Load
      <4>3. \A d \in Calls : thread'[d] \in {"truncate", "write"} =>
               /\ FileOf(d) = "queue" => Closed(data'[d], applied \ {d})
               /\ req[d].op = "decide" => \E a \in Contents(data'[d]) : Adds(a, d)
               /\ \A e \in applied \ {d} : ~Decides(d, e) /\ ~Adds(d, e)
        <5>1. \A d \in Calls \ {c} : thread[d] \in {"truncate", "write"} =>
                 /\ FileOf(d) = "queue" => Closed(data[d], applied \ {d})
                 /\ req[d].op = "decide" => \E a \in Contents(data[d]) : Adds(a, d)
                 /\ \A e \in applied \ {d} : ~Decides(d, e) /\ ~Adds(d, e)
          BY DEF Queue, QueueIn
        <5>2. /\ FileOf(c) = "queue" => Closed(data'[c], applied \ {c})
              /\ req[c].op = "decide" => \E a \in Contents(data'[c]) : Adds(a, c)
              /\ \A e \in applied \ {c} : ~Decides(c, e) /\ ~Adds(c, e)
          BY <3>2, <3>4, <3>5, <3>6, <4>1
        <5>3. ASSUME NEW d \in Calls, thread'[d] \in {"truncate", "write"}
              PROVE  /\ FileOf(d) = "queue" => Closed(data'[d], applied \ {d})
                     /\ req[d].op = "decide" => \E a \in Contents(data'[d]) : Adds(a, d)
                     /\ \A e \in applied \ {d} : ~Decides(d, e) /\ ~Adds(d, e)
          <6>1. CASE d = c
            BY <5>2, <6>1
          <6>2. CASE d # c
            <7>1. data'[d] = data[d] /\ thread[d] \in {"truncate", "write"}
              BY <4>1, <5>3, <6>2
            <7>2. QED
              BY <5>1, <6>2, <7>1
          <6>3. QED
            BY <6>1, <6>2
        <5>4. QED
          BY <5>3
      <4>4. QED
        BY <4>2, <4>3 DEF Queue, QueueIn
  <2>4. QED
    BY <2>2, <2>3
<1>6. ASSUME NEW c \in Calls, Truncate(c)
      PROVE  QueueIn(thread', files', data', applied')
  <2>1. Closed(files'["queue"], applied')
    BY <1>6, NoLines, EmptySeq, FileOfCall DEF TypeOK, Queue, QueueIn, Closed, Truncate, Files
  <2>2. QED
    BY <1>6, <2>1 DEF TypeOK, Queue, QueueIn, Truncate
<1>7. ASSUME NEW c \in Calls, Write(c)
      PROVE  QueueIn(thread', files', data', applied')
  <2>1. /\ thread[c] = "write" /\ c \in Changing /\ Contents(data[c]) \subseteq applied
        /\ applied' = applied \union {c} /\ files' = [files EXCEPT ![FileOf(c)] = New(c)]
    BY <1>7 DEF TypeOK, Owners, Inside, Histories, Write
  <2>2. \A d \in Calls : thread'[d] \notin {"truncate", "write"}
    BY <1>7 DEF TypeOK, Owners, Inside, Write, Reply
  <2>3. Closed(files'["queue"], applied')
    <3>1. CASE FileOf(c) = "queue"
      BY <2>1, <3>1, NewClosed DEF TypeOK, Files
    <3>2. CASE FileOf(c) # "queue"
      <4>1. \A d \in Calls : ~Adds(d, c)
        BY <2>1, <3>2, FileOfCall DEF TypeOK, Adds
      <4>2. files'["queue"] = files["queue"] /\ files["queue"] \in Text
        BY <2>1, <3>2 DEF TypeOK, Files, Text
      <4>3. \A i \in DOMAIN files["queue"] : files["queue"][i] \subseteq Calls
        BY <4>2, TextFacts
      <4>4. Closed(files["queue"], applied \union {c})
        BY <4>1, <4>3, Bystander DEF Queue, QueueIn
      <4>5. QED
        BY <2>1, <4>2, <4>4
    <3>3. QED
      BY <3>1, <3>2
  <2>4. \A d \in applied' : req[d].op = "decide" => \E a \in applied' : Adds(a, d)
    BY <2>1 DEF Queue, QueueIn
  <2>5. \A d, e \in applied' : Decides(d, e) => d = e
    <3>1. /\ \A d, e \in applied : Decides(d, e) => d = e
          /\ \A d \in applied \ {c} : ~Decides(c, d)
      BY <2>1 DEF Queue, QueueIn
    <3>2. \A d \in applied : Decides(d, c) => Decides(c, d)
      BY DEF Decides
    <3>3. QED
      BY <2>1, <3>1, <3>2
  <2>6. QED
    BY <2>2, <2>3, <2>4, <2>5 DEF QueueIn
<1>8. ASSUME NEW c \in Calls, Read(c)
      PROVE  QueueIn(thread', files', data', applied')
  BY <1>8 DEF TypeOK, Queue, QueueIn, Closed, Read, Reply
<1>9. ASSUME NEW c \in Calls, AppendAudit(c)
      PROVE  QueueIn(thread', files', data', applied')
  <2>1. files'["queue"] = files["queue"] /\ applied' = applied \union {c} /\ data' = data
    BY <1>9 DEF TypeOK, AppendAudit, Files
  <2>2. \A d \in Calls : thread'[d] \in {"truncate", "write"} => thread'[d] = thread[d]
    BY <1>9 DEF TypeOK, AppendAudit, Reply
  <2>3. QED
    BY <1>9, <2>1, <2>2, AuditChange DEF AppendAudit
<1>10. ASSUME NEW c \in Calls, Fault(c)
       PROVE  QueueIn(thread', files', data', applied')
  <2>1. /\ CutOff(c) /\ data' = data
        /\ \A d \in Calls : thread'[d] \in {"truncate", "write"} => thread'[d] = thread[d]
    BY <1>10 DEF TypeOK, Fault, Reply
  <2>2. QED
    BY <2>1, CutOffChange
<1>11. ASSUME NEW c \in Calls, Answer(c)
       PROVE  QueueIn(thread', files', data', applied')
  BY <1>11 DEF TypeOK, Queue, QueueIn, Closed, Answer
<1>12. CASE Crash
  <2>1. PICK c \in Calls : CutOff(c)
    BY <1>12 DEF Crash
  <2>2. /\ data' = data
        /\ \A d \in Calls : thread'[d] \in {"truncate", "write"} => thread'[d] = thread[d]
    BY <1>12 DEF TypeOK, Crash
  <2>3. QED
    BY <2>1, <2>2, CutOffChange
<1>13. CASE Restart
  BY <1>13 DEF TypeOK, Queue, QueueIn, Closed, Restart
<1>14. CASE UNCHANGED vars
  BY <1>14 DEF TypeOK, Queue, QueueIn, Closed, vars
<1>16. ASSUME NEW c \in Calls, WriteSome(c)
       PROVE  QueueIn(thread', files', data', applied')
  <2>1. PICK n \in Len(files[FileOf(c)]) .. Len(New(c)) :
           /\ files' = [files EXCEPT ![FileOf(c)] = SubSeq(New(c), 1, n)]
           /\ applied' = applied \union ({c} \cap Contents(SubSeq(New(c), 1, n)))
    BY <1>16 DEF WriteSome
  <2>2. /\ thread[c] = "write" /\ c \in Changing /\ Contents(data[c]) \subseteq applied
        /\ thread' = thread /\ data' = data
    BY <1>16 DEF Owners, Inside, Histories, WriteSome
  <2>3. Closed(files'["queue"], applied')
    <3>1. CASE FileOf(c) = "queue"
      <4>1. n \in 0 .. Len(New(c)) /\ files'["queue"] = SubSeq(New(c), 1, n)
        BY <2>1, <3>1, Written DEF TypeOK, Files
      <4>2. QED
        <5>1. applied' \subseteq applied \union {c}
          BY <2>1
        <5>2. \A m \in 0 .. Len(New(c)) : \A done :
                 done \subseteq applied \union {c} => Closed(SubSeq(New(c), 1, m), done)
          BY <2>2, <3>1, NewClosed
        <5>3. Closed(SubSeq(New(c), 1, n), applied')
          BY <4>1, <5>1, <5>2
        <5>4. QED
          BY <4>1, <5>3
    <3>2. CASE FileOf(c) # "queue"
      <4>1. \A d \in Calls : ~Adds(d, c)
        BY <2>2, <3>2, FileOfCall DEF TypeOK, Adds
      <4>2. files'["queue"] = files["queue"] /\ files["queue"] \in Text
        BY <2>1, <3>2 DEF TypeOK, Files, Text
      <4>3. Closed(files["queue"], applied \union {c})
        <5>1. \A i \in DOMAIN files["queue"] : files["queue"][i] \subseteq Calls
          BY <4>2, TextFacts
        <5>2. QED
          BY <4>1, <5>1, Bystander DEF Queue, QueueIn
      <4>4. QED
        BY <2>1, <4>2, <4>3 DEF Closed
    <3>3. QED
      BY <3>1, <3>2
  <2>4. \A d \in Calls \ {c} : thread[d] \notin {"truncate", "write"}
    BY <2>2 DEF Owners, Inside
  <2>5. \A d \in applied' : req[d].op = "decide" => \E a \in applied' : Adds(a, d)
    BY <2>1, <2>2 DEF Queue, QueueIn
  <2>6. \A d, e \in applied' : Decides(d, e) => d = e
    <3>1. /\ \A d, e \in applied : Decides(d, e) => d = e
          /\ \A d \in applied \ {c} : ~Decides(c, d)
      BY <2>2 DEF Queue, QueueIn
    <3>2. \A d \in applied : Decides(d, c) => Decides(c, d)
      BY DEF Decides
    <3>3. QED
      BY <2>1, <3>1, <3>2
  <2>7. applied' \ {c} = applied \ {c}
    BY <2>1
  <2>8. QED
    BY <2>2, <2>3, <2>4, <2>5, <2>6, <2>7 DEF Queue, QueueIn
<1>15. QED
  BY <1>1, <1>2, <1>3, <1>4, <1>5, <1>6, <1>7, <1>8, <1>9, <1>10, <1>11, <1>12, <1>13,
     <1>14, <1>16 DEF Next, Proceed

-----------------------------------------------------------------------------
(* What an answer says, on its way and once its client has it. *)

Promises ==
    \A c \in Calls :
        /\ thread[c] = "reply" => status[c] # 0
        /\ (thread[c] = "reply" /\ status[c] = 409) \/ client[c] = "conflict" =>
              \E d \in applied : Decides(c, d) /\ d # c
        /\ thread[c] = "reply" /\ status[c] \in {400, 401, 404, 409} => c \notin applied
        /\ client[c] \in {"conflict", "refused"} => c \notin applied /\ thread[c] = "done"
        /\ client[c] = "ok" => thread[c] = "done"
        /\ (thread[c] = "reply" /\ status[c] \in {200, 204}) \/ client[c] = "ok" =>
              c \in Reading \/ c \in applied

LEMMA PromisesInit == Init => Promises
BY DEF Init, Promises

LEMMA PromisesStep == TypeOK /\ Owners /\ Histories /\ Promises /\ [Next]_vars => Promises'
<1> SUFFICES ASSUME TypeOK, Owners, Histories, Promises, [Next]_vars
             PROVE  Promises'
  OBVIOUS
<1> USE Fixed
<1>1. ASSUME NEW c \in Calls, Send(c)
      PROVE  Promises'
  BY <1>1 DEF TypeOK, Histories, Owners, Early, Promises, Send
<1>2. ASSUME NEW c \in Calls, Fail(c)
      PROVE  Promises'
  BY <1>2 DEF TypeOK, Histories, Owners, Early, Promises, Fail
<1>3. ASSUME NEW c \in Calls, Arrive(c)
      PROVE  Promises'
  <2>1. CASE req[c].op \in DOMAIN Refusals
    <3>1. Refusals[req[c].op] \in {400, 401, 404}
      BY <2>1, FileOfCall DEF TypeOK, Refusals
    <3>2. /\ status' = [status EXCEPT ![c] = Refusals[req[c].op]]
          /\ thread' = [thread EXCEPT ![c] = "reply"]
      BY <1>3, <2>1 DEF Arrive, Reply
    <3>3. c \notin applied /\ thread[c] = "none"
      BY <1>3 DEF Histories, Early, Arrive
    <3>4. QED
      BY <1>3, <3>1, <3>2, <3>3 DEF TypeOK, Promises, Arrive
  <2>2. CASE req[c].op \notin DOMAIN Refusals
    BY <1>3, <2>2 DEF TypeOK, Promises, Arrive
  <2>3. QED
    BY <2>1, <2>2
<1>4. ASSUME NEW c \in Calls, Acquire(c)
      PROVE  Promises'
  BY <1>4 DEF TypeOK, Histories, Owners, Early, Promises, Acquire
<1>5. ASSUME NEW c \in Calls, Load(c)
      PROVE  Promises'
  <2> DEFINE s == files[FileOf(c)]
  <2>1. thread[c] = "load" /\ c \notin applied /\ Contents(s) \subseteq applied
    BY <1>5, FileOfCall DEF TypeOK, Histories, Early, Load
  <2>2. CASE Judgement(c, s) # 0
    <3>1. /\ status' = [status EXCEPT ![c] = Judgement(c, s)]
          /\ thread' = [thread EXCEPT ![c] = "reply"]
      BY <1>5, <2>2 DEF Load, Reply
    <3>2. Judgement(c, s) = 409 => \E d \in applied : Decides(c, d) /\ d # c
      BY <2>1 DEF Judgement
    <3>3. Judgement(c, s) \in {404, 409}
      BY <2>2, LoadTypes
    <3>4. QED
      BY <1>5, <2>1, <3>1, <3>2, <3>3 DEF TypeOK, Promises, Load
  <2>3. CASE Judgement(c, s) = 0
    BY <1>5, <2>3 DEF TypeOK, Promises, Load, Reply
  <2>4. QED
    BY <2>2, <2>3
<1>6. ASSUME NEW c \in Calls, Truncate(c)
      PROVE  Promises'
  BY <1>6 DEF TypeOK, Promises, Truncate
<1>7. ASSUME NEW c \in Calls, Write(c)
      PROVE  Promises'
  BY <1>7 DEF TypeOK, Promises, Write, Reply
<1>8. ASSUME NEW c \in Calls, Read(c)
      PROVE  Promises'
  BY <1>8 DEF TypeOK, Histories, Owners, Early, Promises, Read, Reply
<1>9. ASSUME NEW c \in Calls, AppendAudit(c)
      PROVE  Promises'
  BY <1>9 DEF TypeOK, Promises, AppendAudit, Reply
<1>10. ASSUME NEW c \in Calls, Fault(c)
      PROVE  Promises'
  <2>1. /\ applied \subseteq applied' /\ applied' \subseteq applied \union {c}
        /\ thread[c] \notin {"reply", "done"}
    BY <1>10, CutOffHistories DEF Fault
  <2>2. QED
    BY <1>10, <2>1 DEF TypeOK, Promises, Fault, Reply
<1>11. ASSUME NEW c \in Calls, Answer(c)
      PROVE  Promises'
  <2>1. /\ status[c] \in Statuses /\ thread[c] = "reply"
        /\ Outcome(status[c]) = "ok" <=> status[c] \in {200, 204}
        /\ Outcome(status[c]) = "conflict" <=> status[c] = 409
        /\ Outcome(status[c]) = "refused" => status[c] \in {400, 401, 404}
    BY <1>11 DEF TypeOK, Promises, Answer, Outcome, Statuses
  <2>2. QED
    BY <1>11, <2>1 DEF TypeOK, Promises, Answer
<1>12. CASE Crash
  <2>1. PICK c \in Calls : CutOff(c)
    BY <1>12 DEF Crash
  <2>2. /\ applied \subseteq applied' /\ applied' \subseteq applied \union {c}
        /\ thread[c] = "append" \/ applied' = applied
    BY <2>1, CutOffHistories
  <2>3. QED
    BY <1>12, <2>2 DEF TypeOK, Promises, Crash
<1>13. CASE Restart
  BY <1>13 DEF TypeOK, Histories, Owners, Early, Promises, Restart
<1>14. CASE UNCHANGED vars
  BY <1>14 DEF TypeOK, Histories, Owners, Early, Promises, vars
<1>16. ASSUME NEW c \in Calls, WriteSome(c)
       PROVE  Promises'
  <2>1. /\ applied \subseteq applied' /\ applied' \subseteq applied \union {c}
        /\ thread[c] = "write" /\ thread' = thread /\ status' = status /\ client' = client
    BY <1>16 DEF WriteSome
  <2>2. QED
    <3>1. SUFFICES ASSUME NEW d \in Calls
                   PROVE  /\ thread[d] = "reply" => status[d] # 0
                          /\ (thread[d] = "reply" /\ status[d] = 409) \/ client[d] = "conflict" =>
                                \E e \in applied' : Decides(d, e) /\ e # d
                          /\ thread[d] = "reply" /\ status[d] \in {400, 401, 404, 409} =>
                                d \notin applied'
                          /\ client[d] \in {"conflict", "refused"} =>
                                d \notin applied' /\ thread[d] = "done"
                          /\ client[d] = "ok" => thread[d] = "done"
                          /\ (thread[d] = "reply" /\ status[d] \in {200, 204}) \/ client[d] = "ok" =>
                                d \in Reading \/ d \in applied'
      BY <2>1 DEF Promises, Decides
    <3>2. QED
      BY <2>1 DEF Promises
<1>15. QED
  BY <1>1, <1>2, <1>3, <1>4, <1>5, <1>6, <1>7, <1>8, <1>9, <1>10, <1>11, <1>12, <1>13,
     <1>14, <1>16 DEF Next, Proceed

-----------------------------------------------------------------------------
(* What faults cost the audit log. *)

\* The records whose clients have been told, or are about to be, that they are written.
Told ==
    {c \in Calls : /\ req[c].op = "append"
                   /\ client[c] = "ok" \/ (thread[c] = "reply" /\ status[c] \in {200, 204})}

Lost == Told \ Contents(files["audit"])

LastLine == files["audit"][Len(files["audit"])]

\* A line without its end stands for a fault that has not cost a record yet.
AuditOK ==
    /\ IsFiniteSet(Lost) /\ Cardinality(Lost) <= faults
    /\ torn => Cardinality(Lost) + 1 <= faults /\ LastLine \cap Told = {}

LEMMA NotTorn == AuditOK /\ faults = 0 => ~torn
<1>1. AuditOK => IsFiniteSet(Lost) /\ Cardinality(Lost) \in Nat
  BY FS_CardinalityType DEF AuditOK
<1>2. AuditOK /\ faults = 0 /\ torn => Cardinality(Lost) + 1 <= 0
  BY DEF AuditOK
<1>3. QED
  BY <1>1, <1>2

LEMMA AuditInit == Init => AuditOK
<1> SUFFICES ASSUME Init
             PROVE  AuditOK
  OBVIOUS
<1>1. Lost = {}
  BY DEF Init, Lost, Told
<1>2. ~torn
  BY Zenon DEF Init
<1>3. QED
  BY <1>1, <1>2, FS_EmptySet DEF Init, AuditOK

\* Nobody is told anything new of the audit log, and it stays as it is.
LEMMA AuditQuiet ==
    ASSUME TypeOK, AuditOK, Told' \subseteq Told, files'["audit"] = files["audit"],
           torn' = torn, faults' \in Nat, faults <= faults'
    PROVE  AuditOK'
<1>1. Lost' \subseteq Lost
  BY DEF Lost
<1>2. /\ IsFiniteSet(Lost) /\ IsFiniteSet(Lost') /\ Cardinality(Lost') <= Cardinality(Lost)
      /\ Cardinality(Lost) \in Nat /\ Cardinality(Lost') \in Nat
  BY <1>1, FS_Subset, FS_CardinalityType DEF AuditOK
<1>3. faults \in Nat
  BY DEF TypeOK
<1>4. LastLine' = LastLine
  BY DEF LastLine
<1>5. QED
  BY <1>2, <1>3, <1>4 DEF AuditOK

\* A line without its end spoils the record behind it, which has no reader's promise yet
\* or is the one that the fault costs.
LEMMA AuditSpoils ==
    ASSUME TypeOK, AuditOK, NEW text \in SUBSET Calls,
           files'["audit"] = Extended(files["audit"], text)
    PROVE  /\ Told \ Contents(files'["audit"]) \subseteq Lost
           /\ ~torn => text \subseteq Contents(files'["audit"])
           /\ LastLine' \subseteq text
<1>1. /\ ~torn => Contents(files'["audit"]) = Contents(files["audit"]) \union text
      /\ torn => \A u \in Contents(files["audit"]) :
                    u \in Contents(files'["audit"]) \/ u \in LastLine
      /\ LastLine' \subseteq text
  BY AuditExtended DEF LastLine
<1>2. torn \in BOOLEAN /\ (torn => LastLine \cap Told = {})
  BY DEF TypeOK, AuditOK
<1>3. QED
  BY <1>1, <1>2 DEF Lost

LEMMA AuditCutOff ==
    ASSUME TypeOK, Owners, AuditOK, NEW c \in Calls, CutOff(c), Told' \subseteq Told,
           client[c] # "ok", faults' = faults + 1, thread[c] # "reply"
    PROVE  AuditOK'
<1>1. faults \in Nat /\ faults' \in Nat /\ faults <= faults'
  BY DEF TypeOK
<1>2. CASE UNCHANGED <<files, torn, applied>>
  BY <1>1, <1>2, AuditQuiet
<1>3. CASE ~UNCHANGED <<files, torn, applied>>
  <2>1. PICK text \in {{}, {c}} : files' = [files EXCEPT !["audit"] = Extended(@, text)]
    BY <1>3 DEF CutOff
  <2>2. text \in SUBSET Calls /\ files'["audit"] = Extended(files["audit"], text)
    BY <2>1 DEF TypeOK, Files
  <2>3. Told \ Contents(files'["audit"]) \subseteq Lost /\ LastLine' \subseteq text
    BY <2>2, AuditSpoils
  <2>4. Lost' \subseteq Lost
    BY <2>3 DEF Lost
  <2>5. c \notin Told
    BY DEF Told
  <2>6. LastLine' \cap Told' = {}
    BY <2>3, <2>5
  <2>7. /\ IsFiniteSet(Lost) /\ IsFiniteSet(Lost') /\ Cardinality(Lost') <= Cardinality(Lost)
        /\ Cardinality(Lost) \in Nat /\ Cardinality(Lost') \in Nat
    BY <2>4, FS_Subset, FS_CardinalityType DEF AuditOK
  <2>8. QED
    BY <1>1, <2>6, <2>7 DEF AuditOK
<1>4. QED
  BY <1>2, <1>3

LEMMA AuditStep == TypeOK /\ Owners /\ Promises /\ AuditOK /\ [Next]_vars => AuditOK'
<1> SUFFICES ASSUME TypeOK, Owners, Promises, AuditOK, [Next]_vars
             PROVE  AuditOK'
  OBVIOUS
<1> DEFINE Quiet == /\ Told' \subseteq Told /\ files'["audit"] = files["audit"]
                    /\ torn' = torn /\ faults' = faults
<1>17. ASSUME Quiet
       PROVE  AuditOK'
  BY <1>17, AuditQuiet DEF TypeOK
<1> USE Fixed
<1>1. ASSUME NEW c \in Calls, Send(c)
      PROVE  Quiet
  BY <1>1 DEF TypeOK, Told, Send
<1>2. ASSUME NEW c \in Calls, Fail(c)
      PROVE  Quiet
  BY <1>2 DEF TypeOK, Told, Fail
<1>3. ASSUME NEW c \in Calls, Arrive(c)
      PROVE  Quiet
  <2>1. req[c].op = "append" => req[c].op \notin DOMAIN Refusals
    BY FileOfCall DEF TypeOK
  <2>2. QED
    BY <1>3, <2>1 DEF TypeOK, Told, Arrive, Reply
<1>4. ASSUME NEW c \in Calls, Acquire(c)
      PROVE  Quiet
  BY <1>4 DEF TypeOK, Told, Acquire
<1>5. ASSUME NEW c \in Calls, Load(c)
      PROVE  Quiet
  <2>1. FileOf(c) \in Files \ {"audit"} /\ req[c].op # "append"
    BY <1>5, FileOfCall DEF TypeOK, Owners, Inside, Load
  <2>2. QED
    BY <1>5, <2>1 DEF TypeOK, Told, Files, Load, Reply
<1>6. ASSUME NEW c \in Calls, Truncate(c)
      PROVE  Quiet
  <2>1. FileOf(c) \in Files \ {"audit"} /\ req[c].op # "append"
    BY <1>6, FileOfCall DEF TypeOK, Owners, Inside, Truncate
  <2>2. QED
    BY <1>6, <2>1 DEF TypeOK, Told, Files, Truncate
<1>7. ASSUME NEW c \in Calls, Write(c)
      PROVE  Quiet
  <2>1. FileOf(c) \in Files \ {"audit"} /\ req[c].op # "append"
    BY <1>7, FileOfCall DEF TypeOK, Owners, Inside, Write
  <2>2. QED
    BY <1>7, <2>1 DEF TypeOK, Told, Files, Write, Reply
<1>16. ASSUME NEW c \in Calls, WriteSome(c)
      PROVE  Quiet
  <2>1. FileOf(c) \in Files \ {"audit"} /\ req[c].op # "append"
    BY <1>16, FileOfCall DEF TypeOK, Owners, Inside, WriteSome
  <2>2. QED
    BY <1>16, <2>1 DEF TypeOK, Told, Files, WriteSome
<1>8. ASSUME NEW c \in Calls, Read(c)
      PROVE  Quiet
  <2>1. req[c].op # "append"
    BY <1>8, FileOfCall DEF TypeOK, Owners, Read
  <2>2. QED
    BY <1>8, <2>1 DEF TypeOK, Told, Read, Reply
<1>9. ASSUME NEW c \in Calls, AppendAudit(c)
      PROVE  AuditOK'
  <2>1. files'["audit"] = Extended(files["audit"], {c}) /\ faults' = faults
    BY <1>9 DEF TypeOK, AppendAudit, Files
  <2>2. Told' \subseteq Told \union {c}
    BY <1>9 DEF TypeOK, Told, AppendAudit, Reply
  <2>3. ~torn'
    BY <1>9, Zenon DEF AppendAudit
  <2>4. /\ Told \ Contents(files'["audit"]) \subseteq Lost
        /\ ~torn => {c} \subseteq Contents(files'["audit"])
    BY <2>1, AuditSpoils
  <2>5. faults \in Nat /\ torn \in BOOLEAN
    BY DEF TypeOK
  <2>6. IsFiniteSet(Lost) /\ Cardinality(Lost) \in Nat
    BY FS_CardinalityType DEF AuditOK
  <2>7. CASE torn
    <3>1. Lost' \subseteq Lost \union {c}
      BY <2>2, <2>4 DEF Lost
    <3>2. IsFiniteSet(Lost \union {c}) /\ Cardinality(Lost \union {c}) <= Cardinality(Lost) + 1
      <4>1. /\ IsFiniteSet(Lost \union {c})
            /\ \/ Cardinality(Lost \union {c}) = Cardinality(Lost)
               \/ Cardinality(Lost \union {c}) = Cardinality(Lost) + 1
        BY <2>6, FS_AddElement, Zenon
      <4>2. QED
        BY <2>6, <4>1
    <3>3. IsFiniteSet(Lost') /\ Cardinality(Lost') <= Cardinality(Lost \union {c})
      BY <3>1, <3>2, FS_Subset
    <3>4. Cardinality(Lost') \in Nat /\ Cardinality(Lost \union {c}) \in Nat
      BY <3>2, <3>3, FS_CardinalityType
    <3>5. QED
      BY <2>1, <2>3, <2>5, <2>6, <2>7, <3>2, <3>3, <3>4 DEF AuditOK
  <2>8. CASE ~torn
    <3>1. Lost' \subseteq Lost
      BY <2>2, <2>4, <2>8 DEF Lost
    <3>2. IsFiniteSet(Lost') /\ Cardinality(Lost') <= Cardinality(Lost)
      BY <2>6, <3>1, FS_Subset
    <3>3. Cardinality(Lost') \in Nat
      BY <3>2, FS_CardinalityType
    <3>4. QED
      BY <2>1, <2>3, <2>5, <2>6, <3>2, <3>3 DEF AuditOK
  <2>9. QED
    BY <2>5, <2>7, <2>8
<1>10. ASSUME NEW c \in Calls, Fault(c)
       PROVE  AuditOK'
  <2>1. Told' \subseteq Told
    BY <1>10 DEF TypeOK, Told, Fault, Reply
  <2>2. client[c] # "ok" /\ thread[c] # "reply" /\ CutOff(c) /\ faults' = faults + 1
    BY <1>10 DEF Promises, Fault
  <2>3. QED
    BY <2>1, <2>2, AuditCutOff
<1>11. ASSUME NEW c \in Calls, Answer(c)
       PROVE  Quiet
  <2>1. status[c] \in Statuses /\ (Outcome(status[c]) = "ok" => status[c] \in {200, 204})
    BY DEF TypeOK, Outcome, Statuses
  <2>2. QED
    BY <1>11, <2>1 DEF TypeOK, Told, Answer
<1>12. CASE Crash
  <2>1. PICK c \in Calls : CutOff(c)
    BY <1>12 DEF Crash
  <2>2. Told' \subseteq Told /\ faults' = faults + 1
    BY <1>12 DEF TypeOK, Told, Crash
  <2>3. CASE UNCHANGED <<files, torn, applied>>
    BY <2>2, <2>3, AuditQuiet DEF TypeOK
  <2>4. CASE ~UNCHANGED <<files, torn, applied>>
    <3>1. thread[c] = "append"
      BY <2>1, <2>4 DEF CutOff
    <3>2. client[c] # "ok" /\ thread[c] # "reply"
      BY <3>1 DEF Promises
    <3>3. QED
      BY <2>1, <2>2, <3>2, AuditCutOff
  <2>5. QED
    BY <2>3, <2>4
<1>13. CASE Restart
  BY <1>13, <1>17 DEF TypeOK, Told, Restart
<1>14. CASE UNCHANGED vars
  BY <1>14, <1>17 DEF TypeOK, Told, vars
<1> HIDE DEF Quiet
<1>15. QED
  BY <1>1, <1>2, <1>3, <1>4, <1>5, <1>6, <1>7, <1>8, <1>9, <1>10, <1>11, <1>12, <1>13,
     <1>14, <1>16, <1>17 DEF Next, Proceed

-----------------------------------------------------------------------------
(* What a file shows while it is rewritten, and what it then has lost. *)

Copies ==
    \A c \in Calls :
        /\ thread[c] = "truncate" => data[c] = files[FileOf(c)]
        /\ thread[c] = "write" =>
              /\ \E n \in 0 .. Len(New(c)) : files[FileOf(c)] = SubSeq(New(c), 1, n)
              /\ FileOf(c) # "queue" => files[FileOf(c)] \in {<<>>, New(c)}
        /\ client[c] = "idle" => thread[c] = "none"
        /\ \A d \in before[c] : client[d] = "ok" /\ FileOf(d) = FileOf(c) /\ d \notin Reading

LEMMA CopiesInit == Init => Copies
BY DEF Init, Copies

\* A rewrite begins with an empty file and goes on until it is as long as the text.
LEMMA Pieces ==
    ASSUME TypeOK, NEW c \in Calls
    PROVE  /\ <<>> = SubSeq(New(c), 1, 0) /\ 0 \in 0 .. Len(New(c))
           /\ SubSeq(New(c), 1, Len(New(c))) = New(c)
<1>1. New(c) \in Text /\ Len(New(c)) \in Nat
  BY Written, TextFacts
<1>2. SubSeq(New(c), 1, 0) \in Text /\ Len(SubSeq(New(c), 1, 0)) = 0
  BY <1>1, PrefixFacts
<1>3. SubSeq(New(c), 1, 0) = <<>>
  BY <1>2, EmptySeq DEF Text
<1>4. QED
  BY <1>1, <1>3, WholePrefix

\* A rewrite writes the same text as long as its copy is the same.
LineOf(r, s, c) ==
    CHOOSE i \in DOMAIN s : \E a \in s[i] :
        r[a].op = "add" /\ r[c].op = "decide" /\ r[a].item = r[c].item

LEMMA SameText ==
    ASSUME req' = req
    PROVE  \A c \in Calls : data'[c] = data[c] => New(c)' = New(c)
<1> DEFINE Place(r, s, c) == IF r[c].op = "decide" THEN LineOf(r, s, c) ELSE Len(s) + 1
<1>1. ASSUME NEW c \in Calls
      PROVE  New(c) = With(data[c], Place(req, data[c], c), c)
  BY DEF New, LineOf, Adds
<1>2. ASSUME NEW c \in Calls
      PROVE  New(c)' = With(data'[c], Place(req', data'[c], c), c)
  BY DEF New, LineOf, Adds
<1> HIDE DEF Place
<1>3. QED
  BY <1>1, <1>2

LEMMA CopiesStep == TypeOK /\ Owners /\ Histories /\ Promises /\ Copies /\ [Next]_vars => Copies'
<1> SUFFICES ASSUME TypeOK, Owners, Histories, Promises, Copies, [Next]_vars
             PROVE  Copies'
  OBVIOUS
<1> USE Fixed
<1> DEFINE Known == \A c \in Calls :
                       /\ client'[c] = "idle" => thread'[c] = "none"
                       /\ \A d \in before'[c] : /\ client'[d] = "ok" /\ FileOf(d) = FileOf(c)
                                                /\ d \notin Reading
           Kept(c) == /\ data'[c] = data[c] /\ thread'[c] = thread[c]
                      /\ files'[FileOf(c)] = files[FileOf(c)]
           Good(c) == /\ thread'[c] = "truncate" => data'[c] = files'[FileOf(c)]
                      /\ thread'[c] = "write" =>
                            /\ \E n \in 0 .. Len(New(c)') :
                                  files'[FileOf(c)] = SubSeq(New(c)', 1, n)
                            /\ FileOf(c) # "queue" => files'[FileOf(c)] \in {<<>>, New(c)'}
<1>17. \A c \in Calls : data'[c] = data[c] => New(c)' = New(c)
  BY SameText
<1>18. ASSUME NEW c \in Calls, Kept(c)
       PROVE  Good(c)
  BY <1>17, <1>18 DEF Copies
<1>19. ASSUME Known, \A c \in Calls : Good(c)
       PROVE  Copies'
  <2>1. \A d : FileOf(d)' = FileOf(d)
    BY DEF FileOf
  <2>2. QED
    BY <1>19, <2>1 DEF Copies
<1>20. \A c \in Calls : thread[c] \in Inside => FileOf(c) \in Files \ {"audit"}
  BY FileOfCall DEF TypeOK, Owners
<1>21. Copies =>
          \A c \in Calls : /\ client[c] = "idle" => thread[c] = "none"
                           /\ \A d \in before[c] : /\ client[d] = "ok" /\ FileOf(d) = FileOf(c)
                                                   /\ d \notin Reading /\ d \in Calls
  BY DEF TypeOK, Copies
<1> HIDE DEF Known, Kept, Good
<1>1. ASSUME NEW c \in Calls, Send(c)
       PROVE  Copies'
  <2>1. Known
    <3>1. \A d \in Acked(FileOf(c)) :
             client[d] = "ok" /\ FileOf(d) = FileOf(c) /\ d \notin Reading /\ d # c
      BY <1>1 DEF Acked, Send
    <3>2. QED
      BY <1>1, <1>21, <3>1 DEF TypeOK, Known, Send
  <2>2. \A d \in Calls : Good(d)
    BY <1>1, <1>18 DEF TypeOK, Kept, Send
  <2>3. QED
    BY <1>19, <2>1, <2>2
<1>2. ASSUME NEW c \in Calls, Fail(c)
       PROVE  Copies'
  <2>1. Known
    BY <1>2, <1>21 DEF TypeOK, Known, Fail
  <2>2. \A d \in Calls : Good(d)
    BY <1>2, <1>18 DEF TypeOK, Kept, Fail
  <2>3. QED
    BY <1>19, <2>1, <2>2
<1>3. ASSUME NEW c \in Calls, Arrive(c)
       PROVE  Copies'
  <2>1. Known
    BY <1>3, <1>21 DEF TypeOK, Known, Arrive, Reply
  <2>2. \A d \in Calls : Good(d)
    <3>1. \A d \in Calls \ {c} : Kept(d) \/ thread'[d] \notin {"truncate", "write"}
      BY <1>3, <1>20 DEF TypeOK, Owners, Inside, Kept, Arrive, Reply
    <3>2. thread'[c] \notin {"truncate", "write"}
      BY <1>3 DEF TypeOK, Arrive, Reply
    <3>3. QED
      BY <1>18, <3>1, <3>2 DEF Good
  <2>3. QED
    BY <1>19, <2>1, <2>2
<1>4. ASSUME NEW c \in Calls, Acquire(c)
       PROVE  Copies'
  <2>1. Known
    BY <1>4, <1>21 DEF TypeOK, Known, Acquire
  <2>2. \A d \in Calls : Good(d)
    <3>1. \A d \in Calls \ {c} : Kept(d) \/ thread'[d] \notin {"truncate", "write"}
      BY <1>4, <1>20 DEF TypeOK, Owners, Inside, Kept, Acquire
    <3>2. thread'[c] \notin {"truncate", "write"}
      BY <1>4 DEF TypeOK, Acquire
    <3>3. QED
      BY <1>18, <3>1, <3>2 DEF Good
  <2>3. QED
    BY <1>19, <2>1, <2>2
<1>5. ASSUME NEW c \in Calls, Load(c)
       PROVE  Copies'
  <2>1. Known
    BY <1>5, <1>21 DEF TypeOK, Known, Load, Reply
  <2>2. \A d \in Calls : Good(d)
    <3>1. \A d \in Calls \ {c} : Kept(d)
      BY <1>5 DEF TypeOK, Kept, Load, Reply
    <3>2. Good(c)
      BY <1>5 DEF TypeOK, Good, Load, Reply
    <3>3. QED
      BY <1>18, <3>1, <3>2
  <2>3. QED
    BY <1>19, <2>1, <2>2
<1>6. ASSUME NEW c \in Calls, Truncate(c)
       PROVE  Copies'
  <2>1. Known
    BY <1>6, <1>21 DEF TypeOK, Known, Truncate
  <2>2. \A d \in Calls : Good(d)
    <3>1. \A d \in Calls \ {c} : Kept(d) \/ thread'[d] \notin {"truncate", "write"}
      BY <1>6 DEF TypeOK, Owners, Inside, Kept, Truncate
    <3>2. thread'[c] = "write" /\ files'[FileOf(c)] = <<>> /\ New(c)' = New(c)
      BY <1>6, <1>17, <1>20 DEF TypeOK, Inside, Truncate
    <3>3. Good(c)
      BY <3>2, Pieces DEF Good
    <3>4. QED
      BY <1>18, <3>1, <3>3 DEF Good
  <2>3. QED
    BY <1>19, <2>1, <2>2
<1>7. ASSUME NEW c \in Calls, Write(c)
       PROVE  Copies'
  <2>1. Known
    BY <1>7, <1>21 DEF TypeOK, Known, Write, Reply
  <2>2. \A d \in Calls : Good(d)
    <3>1. \A d \in Calls \ {c} : Kept(d) \/ thread'[d] \notin {"truncate", "write"}
      BY <1>7, <1>20 DEF TypeOK, Owners, Inside, Kept, Write, Reply
    <3>2. thread'[c] \notin {"truncate", "write"}
      BY <1>7 DEF TypeOK, Write, Reply
    <3>3. QED
      BY <1>18, <3>1, <3>2 DEF Good
  <2>3. QED
    BY <1>19, <2>1, <2>2
<1>16. ASSUME NEW c \in Calls, WriteSome(c)
       PROVE  Copies'
  <2>1. Known
    BY <1>16, <1>21 DEF TypeOK, Known, WriteSome
  <2>2. \A d \in Calls : Good(d)
    <3>1. \A d \in Calls \ {c} : Kept(d) \/ thread'[d] \notin {"truncate", "write"}
      BY <1>16 DEF TypeOK, Owners, Inside, Kept, WriteSome
    <3>2. PICK n \in Len(files[FileOf(c)]) .. Len(New(c)) :
             /\ FileOf(c) = "queue" \/ n = Len(New(c))
             /\ files' = [files EXCEPT ![FileOf(c)] = SubSeq(New(c), 1, n)]
      BY <1>16 DEF WriteSome
    <3>3. /\ thread'[c] = "write" /\ New(c)' = New(c) /\ n \in 0 .. Len(New(c))
          /\ files'[FileOf(c)] = SubSeq(New(c), 1, n)
      BY <1>16, <1>17, <1>20, <3>2, Written DEF TypeOK, Inside, WriteSome
    <3>4. Good(c)
      BY <3>2, <3>3, Pieces DEF Good
    <3>5. QED
      BY <1>18, <3>1, <3>4 DEF Good
  <2>3. QED
    BY <1>19, <2>1, <2>2
<1>8. ASSUME NEW c \in Calls, Read(c)
       PROVE  Copies'
  <2>1. Known
    BY <1>8, <1>21 DEF TypeOK, Known, Read, Reply
  <2>2. \A d \in Calls : Good(d)
    <3>1. \A d \in Calls \ {c} : Kept(d) \/ thread'[d] \notin {"truncate", "write"}
      BY <1>8, <1>20 DEF TypeOK, Owners, Inside, Kept, Read, Reply
    <3>2. thread'[c] \notin {"truncate", "write"}
      BY <1>8 DEF TypeOK, Read, Reply
    <3>3. QED
      BY <1>18, <3>1, <3>2 DEF Good
  <2>3. QED
    BY <1>19, <2>1, <2>2
<1>9. ASSUME NEW c \in Calls, AppendAudit(c)
       PROVE  Copies'
  <2>1. Known
    BY <1>9, <1>21 DEF TypeOK, Known, AppendAudit, Reply
  <2>2. \A d \in Calls : Good(d)
    <3>1. \A d \in Calls \ {c} : Kept(d) \/ thread'[d] \notin {"truncate", "write"}
      BY <1>9, <1>20 DEF TypeOK, Owners, Inside, Kept, AppendAudit, Reply
    <3>2. thread'[c] \notin {"truncate", "write"}
      BY <1>9 DEF TypeOK, AppendAudit, Reply
    <3>3. QED
      BY <1>18, <3>1, <3>2 DEF Good
  <2>3. QED
    BY <1>19, <2>1, <2>2
<1>10. ASSUME NEW c \in Calls, Fault(c)
       PROVE  Copies'
  <2>1. Known
    BY <1>10, <1>21 DEF TypeOK, Known, Fault, Reply
  <2>2. \A d \in Calls : Good(d)
    <3>1. \A f \in Files \ {"audit"} : files'[f] = files[f]
      BY <1>10, CutOffHistories DEF Fault
    <3>2. \A d \in Calls \ {c} : Kept(d) \/ thread'[d] \notin {"truncate", "write"}
      BY <1>10, <1>20, <3>1 DEF TypeOK, Owners, Inside, Kept, Fault, Reply
    <3>3. thread'[c] \notin {"truncate", "write"}
      BY <1>10 DEF TypeOK, Fault, Reply
    <3>4. QED
      BY <1>18, <3>2, <3>3 DEF Good
  <2>3. QED
    BY <1>19, <2>1, <2>2
<1>11. ASSUME NEW c \in Calls, Answer(c)
       PROVE  Copies'
  <2>1. Known
    BY <1>11, <1>21 DEF TypeOK, Known, Answer, Outcome
  <2>2. \A d \in Calls : Good(d)
    <3>1. \A d \in Calls \ {c} : Kept(d) \/ thread'[d] \notin {"truncate", "write"}
      BY <1>11, <1>20 DEF TypeOK, Owners, Inside, Kept, Answer
    <3>2. thread'[c] \notin {"truncate", "write"}
      BY <1>11 DEF TypeOK, Answer
    <3>3. QED
      BY <1>18, <3>1, <3>2 DEF Good
  <2>3. QED
    BY <1>19, <2>1, <2>2
<1>12. CASE Crash
  <2>1. Known
    BY <1>12, <1>21 DEF TypeOK, Known, Crash
  <2>2. \A d \in Calls : Good(d)
    <3>1. \A d \in Calls : thread'[d] \notin {"truncate", "write"}
      BY <1>12 DEF TypeOK, Crash
    <3>2. QED
      BY <3>1 DEF Good
  <2>3. QED
    BY <1>19, <2>1, <2>2
<1>13. CASE Restart
  <2>1. Known
    BY <1>13, <1>21 DEF TypeOK, Known, Restart
  <2>2. \A d \in Calls : Good(d)
    BY <1>13, <1>18 DEF TypeOK, Kept, Restart
  <2>3. QED
    BY <1>19, <2>1, <2>2
<1>14. CASE UNCHANGED vars
  <2>1. Known
    BY <1>14, <1>21 DEF TypeOK, Known, vars
  <2>2. \A d \in Calls : Good(d)
    BY <1>14, <1>18 DEF TypeOK, Kept, vars
  <2>3. QED
    BY <1>19, <2>1, <2>2
<1>15. QED
  BY <1>1, <1>2, <1>3, <1>4, <1>5, <1>6, <1>7, <1>8, <1>9, <1>10, <1>11, <1>12, <1>13,
     <1>14, <1>16 DEF Next, Proceed

\* Who asks knows of calls that are done, and of their file only.
LEMMA KnownCalls ==
    ASSUME TypeOK, Promises, Copies, NEW c \in Calls, NEW d \in before[c]
    PROVE  d \in Calls /\ d \in applied /\ FileOf(d) = FileOf(c) /\ thread[d] = "done"
<1>1. d \in Calls
  BY DEF TypeOK
<1>2. client[d] = "ok" /\ FileOf(d) = FileOf(c) /\ d \notin Reading
  BY DEF Copies
<1>3. QED
  BY <1>1, <1>2 DEF Promises

Rewritten(f, place) == \E c \in Calls : place[c] = "write" /\ FileOf(c) = f

Whole(f, s, done) == \A d \in done : FileOf(d) = f => d \in Contents(s)

\* What was acknowledged before an item was added is in its line or before it.
Ordered(s, known) ==
    \A i \in DOMAIN s : \A a \in s[i] : req[a].op = "add" =>
        \A b \in known[a] : \E j \in DOMAIN s : j <= i /\ b \in s[j]

Shows(c, known, s) ==
    \/ known[c] \subseteq Contents(s)
    \/ FileOf(c) \in {"cost", "provenance"} /\ s = <<>>
    \/ /\ FileOf(c) = "queue"
       /\ \A a \in Contents(s), d \in known[c] : Adds(a, d) => d \in Contents(s)
       /\ \A a \in Contents(s) : req[a].op = "add" => known[a] \subseteq Contents(s)

FilesWhole(place, log, done) ==
    \A f \in Files : ~Rewritten(f, place) => Whole(f, log[f], done)

CopiesWhole(place, copy, done) ==
    \A c \in Calls : place[c] = "write" => Whole(FileOf(c), copy[c], done \ {c})

InOrder(place, log, copy, known) ==
    /\ Ordered(log["queue"], known)
    /\ \A c \in Calls : place[c] \in {"truncate", "write"} /\ FileOf(c) = "queue" =>
          Ordered(copy[c], known)

ReadersShown(place, got, answer, known, copy) ==
    \A c \in Reading :
        got[c] = "ok" \/ (place[c] = "reply" /\ answer[c] \in {200, 204}) =>
            Shows(c, known, copy[c])

ShownIn(place, got, answer, known, copy, log, done) ==
    /\ FilesWhole(place, log, done)
    /\ CopiesWhole(place, copy, done)
    /\ InOrder(place, log, copy, known)
    /\ ReadersShown(place, got, answer, known, copy)

Shown == faults = 0 => ShownIn(thread, client, status, before, data, files, applied)

LEMMA ShownInit == Init => Shown
<1> SUFFICES ASSUME Init
             PROVE  Shown
  OBVIOUS
<1>1. DOMAIN files["queue"] = {}
  BY EmptySeq DEF Init, Files
<1>2. QED
  BY <1>1 DEF Init, Shown, ShownIn, FilesWhole, CopiesWhole, InOrder, Ordered, ReadersShown,
              Whole, Reading

LEMMA OrderedShows ==
    ASSUME NEW s, NEW known, Ordered(s, known), NEW a \in Contents(s), req[a].op = "add"
    PROVE  known[a] \subseteq Contents(s)
BY InContents DEF Ordered

\* A complete rewrite and every piece of it keep the order.
LEMMA NewOrdered ==
    ASSUME TypeOK, NEW c \in Calls, Ordered(data[c], before),
           req[c].op = "add" => before[c] \subseteq Contents(data[c])
    PROVE  /\ Ordered(New(c), before)
           /\ \A n \in 0 .. Len(New(c)) : Ordered(SubSeq(New(c), 1, n), before)
<1> DEFINE s == data[c]
           t == New(c)
<1>1. /\ s \in Text /\ Ordered(s, before)
      /\ req[c].op = "add" => before[c] \subseteq Contents(s)
  BY NewLine
<1>2. PICK n \in Slots(s) :
         Updated(s, t, n, c) /\ (req[c].op # "decide" => n \notin DOMAIN s)
  BY LinesOfNew
<1> HIDE DEF s, t
<1>3. /\ t \in Text /\ DOMAIN t = DOMAIN s \union {n}
      /\ \A i \in DOMAIN s : i # n => t[i] = s[i]
      /\ n \in DOMAIN s => t[n] = s[n] \union {c}
      /\ n \notin DOMAIN s => t[n] = {c}
  BY <1>2 DEF Updated
<1>4. /\ Len(s) \in Nat /\ DOMAIN s = 1 .. Len(s) /\ n \in 1 .. Len(s) + 1
  BY <1>1, TextFacts DEF Slots
<1>5. \A i \in DOMAIN s : s[i] \subseteq t[i]
  BY <1>3
<1>6. Ordered(t, before)
  <2>1. SUFFICES ASSUME NEW i \in DOMAIN t, NEW a \in t[i], req[a].op = "add",
                        NEW b \in before[a]
                 PROVE  \E j \in DOMAIN t : j <= i /\ b \in t[j]
    BY DEF Ordered
  <2>2. CASE i \in DOMAIN s /\ a \in s[i]
    <3>1. PICK j \in DOMAIN s : j <= i /\ b \in s[j]
      BY <1>1, <2>1, <2>2 DEF Ordered
    <3>2. QED
      BY <1>3, <1>5, <3>1
  <2>3. CASE ~(i \in DOMAIN s /\ a \in s[i])
    <3>1. a = c /\ i = n
      BY <1>3, <2>1, <2>3
    <3>2. n \notin DOMAIN s /\ b \in Contents(s)
      BY <1>1, <1>2, <2>1, <3>1
    <3>3. PICK j \in DOMAIN s : b \in s[j]
      BY <3>2, InContents
    <3>4. j <= i
      BY <1>4, <3>1, <3>2, <3>3
    <3>5. QED
      BY <1>3, <1>5, <3>3, <3>4
  <2>4. QED
    BY <2>2, <2>3
<1>7. ASSUME NEW m \in 0 .. Len(t)
      PROVE  Ordered(SubSeq(t, 1, m), before)
  <2> DEFINE p == SubSeq(t, 1, m)
  <2>1. t \in Text
    BY <1>3
  <2>2. /\ DOMAIN p = 1 .. m /\ DOMAIN p \subseteq DOMAIN t
        /\ \A i \in DOMAIN p : p[i] = t[i]
    BY <2>1, PrefixFacts
  <2>3. DOMAIN t = 1 .. Len(t) /\ Len(t) \in Nat
    BY <2>1, TextFacts
  <2> HIDE DEF p
  <2>4. ASSUME NEW i \in DOMAIN p, NEW a \in p[i], req[a].op = "add", NEW b \in before[a]
        PROVE  \E j \in DOMAIN p : j <= i /\ b \in p[j]
    <3>1. PICK j \in DOMAIN t : j <= i /\ b \in t[j]
      BY <1>6, <2>2, <2>4 DEF Ordered
    <3>2. j \in DOMAIN p
      BY <2>2, <2>3, <3>1
    <3>3. QED
      BY <2>2, <3>1, <3>2
  <2>5. QED
    BY <2>4 DEF Ordered, p
<1>8. QED
  BY <1>6, <1>7 DEF t

\* Steps that leave the files alone, let no thread write and give no reader an answer.
LEMMA Quiet ==
    ASSUME Histories, ShownIn(thread, client, status, before, data, files, applied),
           files' = files, data' = data, applied' = applied,
           \A a \in applied : before'[a] = before[a],
           \A c \in Calls : thread'[c] = "write" <=> thread[c] = "write",
           \A c \in Calls : thread'[c] = "truncate" => thread[c] = "truncate",
           \A c \in Reading :
              client'[c] = "ok" \/ (thread'[c] = "reply" /\ status'[c] \in {200, 204}) =>
                 /\ client[c] = "ok" \/ (thread[c] = "reply" /\ status[c] \in {200, 204})
                 /\ before'[c] = before[c]
    PROVE  ShownIn(thread', client', status', before', data', files', applied')
<1>1. \A f \in Files : Rewritten(f, thread') = Rewritten(f, thread)
  BY DEF Rewritten
<1>2. ASSUME NEW s, Contents(s) \subseteq applied, Ordered(s, before)
      PROVE  Ordered(s, before')
  BY <1>2, InContents DEF Ordered
<1>3. InOrder(thread', files', data', before')
  BY <1>2 DEF ShownIn, InOrder, Histories, Files
<1>4. ASSUME NEW c \in Reading, before'[c] = before[c], Shows(c, before, data[c])
      PROVE  Shows(c, before', data[c])
  <2>1. Contents(data[c]) \subseteq applied
    BY DEF Histories, Reading
  <2>2. QED
    BY <1>4, <2>1 DEF Shows
<1>5. ReadersShown(thread', client', status', before', data')
  BY <1>4 DEF ShownIn, ReadersShown
<1>6. QED
  BY <1>1, <1>3, <1>5 DEF ShownIn, FilesWhole, CopiesWhole

LEMMA NoFaultYet == TypeOK /\ [Next]_vars /\ faults' = 0 => faults = 0
<1>1. [Next]_vars => faults' = faults \/ faults' = faults + 1
  BY DEF Next, Proceed, Send, Fail, Arrive, Acquire, Load, Truncate, WriteSome, Write, Read,
         AppendAudit, Fault, Answer, Crash, Restart, vars
<1>2. TypeOK => faults \in Nat
  BY DEF TypeOK
<1>3. QED
  BY <1>1, <1>2

\* The file that is rewritten is the only one.
LEMMA OnlyRewritten ==
    ASSUME TypeOK, Owners, NEW c \in Calls, thread[c] = "write", NEW f \in Files, f # FileOf(c)
    PROVE  ~Rewritten(f, thread)
BY DEF Owners, Inside, Rewritten

\* What a rewrite writes has all that was applied to the file, in order.
LEMMA NewWhole ==
    ASSUME TypeOK, Owners, Histories, Promises, Copies,
           ShownIn(thread, client, status, before, data, files, applied),
           NEW c \in Calls, thread[c] = "write"
    PROVE  /\ Whole(FileOf(c), New(c), applied \union {c})
           /\ FileOf(c) = "queue" =>
                 /\ Ordered(New(c), before)
                 /\ \A n \in 0 .. Len(New(c)) : Ordered(SubSeq(New(c), 1, n), before)
<1>1. Whole(FileOf(c), data[c], applied \ {c})
  BY DEF ShownIn, CopiesWhole
<1>2. Contents(New(c)) = Contents(data[c]) \union {c}
  BY Written
<1>3. Whole(FileOf(c), New(c), applied \union {c})
  BY <1>1, <1>2 DEF Whole
<1>4. before[c] \subseteq Contents(data[c])
  BY <1>1, KnownCalls DEF Whole
<1>5. FileOf(c) = "queue" => Ordered(data[c], before)
  BY DEF ShownIn, InOrder
<1>6. QED
  BY <1>3, <1>4, <1>5, NewOrdered

LEMMA ShownStep ==
    TypeOK /\ Owners /\ Histories /\ Queue /\ Promises /\ AuditOK /\ Copies /\ Shown /\ [Next]_vars
        => Shown'
<1> SUFFICES ASSUME TypeOK, Owners, Histories, Queue, Promises, AuditOK, Copies, Shown,
                    [Next]_vars
             PROVE  Shown'
  OBVIOUS
<1> SUFFICES ASSUME ShownIn(thread, client, status, before, data, files, applied),
                    faults = 0, faults' = 0
             PROVE  ShownIn(thread', client', status', before', data', files', applied')
  <2>1. req' = req
    BY Fixed
  <2>2. FilesWhole(thread', files', applied') => FilesWhole(thread, files, applied)'
    BY <2>1 DEF FilesWhole, Rewritten, Whole, FileOf
  <2>3. CopiesWhole(thread', data', applied') => CopiesWhole(thread, data, applied)'
    BY <2>1 DEF CopiesWhole, Whole, FileOf
  <2>4. InOrder(thread', files', data', before') => InOrder(thread, files, data, before)'
    BY <2>1 DEF InOrder, Ordered, FileOf
  <2>5. ReadersShown(thread', client', status', before', data') =>
           ReadersShown(thread, client, status, before, data)'
    BY <2>1 DEF ReadersShown, Shows, FileOf, Adds, Reading
  <2>6. QED
    BY <2>2, <2>3, <2>4, <2>5, NoFaultYet DEF Shown, ShownIn
<1> DEFINE Good == ShownIn(thread', client', status', before', data', files', applied')
<1>0. /\ FilesWhole(thread, files, applied) /\ CopiesWhole(thread, data, applied)
      /\ InOrder(thread, files, data, before)
      /\ ReadersShown(thread, client, status, before, data)
  BY DEF ShownIn
<1>1. ASSUME NEW c \in Calls, Send(c)
      PROVE  Good
  <2>1. thread[c] = "none" /\ client'[c] = "waiting" /\ thread' = thread /\ c \notin applied
    BY <1>1 DEF TypeOK, Copies, Histories, Early, Send
  <2>2. \A d \in Calls \ {c} : client'[d] = client[d] /\ before'[d] = before[d]
    BY <1>1 DEF TypeOK, Send
  <2>3. \A a \in applied : before'[a] = before[a]
    BY <2>1, <2>2 DEF TypeOK
  <2>4. QED
    BY <1>1, <2>1, <2>2, <2>3, Quiet DEF Reading, Send
<1>2. ASSUME NEW c \in Calls, Fail(c)
      PROVE  Good
  BY <1>2, Quiet DEF TypeOK, Reading, Fail
<1>3. ASSUME NEW c \in Calls, Arrive(c)
      PROVE  Good
  <2>1. CASE req[c].op \in DOMAIN Refusals
    <3>1. Refusals[req[c].op] \notin {200, 204}
      BY <2>1, FileOfCall DEF TypeOK, Refusals
    <3>2. QED
      BY <1>3, <2>1, <3>1, Quiet DEF TypeOK, Reading, Arrive, Reply
  <2>2. CASE req[c].op \notin DOMAIN Refusals
    BY <1>3, <2>2, Quiet DEF TypeOK, Reading, Arrive
  <2>3. QED
    BY <2>1, <2>2
<1>4. ASSUME NEW c \in Calls, Acquire(c)
      PROVE  Good
  BY <1>4, Quiet DEF TypeOK, Reading, Acquire
<1>5. ASSUME NEW c \in Calls, Load(c)
      PROVE  Good
  <2>1. thread[c] = "load" /\ c \notin Reading /\ FileOf(c) \in Files
    BY <1>5, FileOfCall DEF TypeOK, Owners, Inside, Load
  <2>2. \A d \in Calls \ {c} : thread'[d] = thread[d] /\ data'[d] = data[d] /\ status'[d] = status[d]
    BY <1>5 DEF TypeOK, Load, Reply
  <2>3. thread'[c] \in {"truncate", "reply"} /\ data'[c] = files[FileOf(c)]
    BY <1>5 DEF TypeOK, Load, Reply
  <2>4. \A f \in Files : Rewritten(f, thread') = Rewritten(f, thread)
    BY <2>1, <2>2, <2>3 DEF Rewritten
  <2>5. /\ files' = files /\ applied' = applied /\ client' = client /\ before' = before
    BY <1>5 DEF Load
  <2>6. FilesWhole(thread', files', applied')
    BY <1>0, <2>4, <2>5 DEF FilesWhole
  <2>7. CopiesWhole(thread', data', applied')
    BY <1>0, <2>2, <2>3, <2>5 DEF CopiesWhole
  <2>8. InOrder(thread', files', data', before')
    BY <1>0, <2>2, <2>3, <2>5 DEF InOrder
  <2>9. ReadersShown(thread', client', status', before', data')
    BY <1>0, <2>1, <2>2, <2>5 DEF ReadersShown, Reading
  <2>10. QED
    BY <2>6, <2>7, <2>8, <2>9 DEF ShownIn
<1>6. ASSUME NEW c \in Calls, Truncate(c)
      PROVE  Good
  <2>1. \A d \in Calls \ {c} : thread'[d] = thread[d] /\ thread[d] \notin {"truncate", "write"}
    BY <1>6 DEF TypeOK, Owners, Inside, Truncate
  <2>2. /\ FileOf(c) \in Files /\ thread'[c] = "write" /\ data'[c] = files[FileOf(c)]
        /\ thread[c] = "truncate" /\ data' = data /\ files'[FileOf(c)] = <<>>
        /\ \A f \in Files : f # FileOf(c) => files'[f] = files[f]
    BY <1>6, FileOfCall DEF TypeOK, Copies, Truncate
  <2>3. applied' = applied /\ client' = client /\ before' = before /\ status' = status
    BY <1>6 DEF Truncate
  <2>4. \A f \in Files : Whole(f, files[f], applied)
    BY <1>0, <2>1, <2>2 DEF FilesWhole, Rewritten
  <2>5. Rewritten(FileOf(c), thread')
    BY <2>2 DEF Rewritten
  <2>6. FilesWhole(thread', files', applied')
    BY <2>2, <2>3, <2>4, <2>5 DEF FilesWhole
  <2>7. CopiesWhole(thread', data', applied')
    BY <2>1, <2>2, <2>3, <2>4 DEF CopiesWhole, Whole
  <2>8. Ordered(files'["queue"], before)
    <3>1. DOMAIN <<>> = {}
      BY EmptySeq
    <3>2. Ordered(<<>>, before)
      BY <3>1 DEF Ordered
    <3>3. QED
      BY <1>0, <2>2, <3>2 DEF InOrder, Files
  <2>9. InOrder(thread', files', data', before')
    BY <1>0, <2>1, <2>2, <2>3, <2>8 DEF InOrder
  <2>10. ReadersShown(thread', client', status', before', data')
    BY <1>0, <2>1, <2>2, <2>3 DEF ReadersShown, Reading
  <2>11. QED
    BY <2>6, <2>7, <2>9, <2>10 DEF ShownIn
<1>7. ASSUME NEW c \in Calls, Write(c)
      PROVE  Good
  <2>1. \A d \in Calls \ {c} : thread'[d] = thread[d] /\ thread[d] \notin {"truncate", "write"}
    BY <1>7 DEF TypeOK, Owners, Inside, Write, Reply
  <2>2. /\ FileOf(c) \in Files /\ c \notin Reading /\ thread[c] = "write" /\ thread'[c] = "reply"
        /\ files' = [files EXCEPT ![FileOf(c)] = New(c)]
        /\ \A d \in Calls \ {c} : data'[d] = data[d] /\ status'[d] = status[d]
        /\ applied' = applied \union {c} /\ client' = client /\ before' = before
    BY <1>7, FileOfCall DEF TypeOK, Owners, Inside, Write, Reply
  <2>3. /\ files'[FileOf(c)] = New(c)
        /\ \A f \in Files : f # FileOf(c) => files'[f] = files[f]
    BY <2>2 DEF TypeOK
  <2>4. /\ Whole(FileOf(c), files'[FileOf(c)], applied')
        /\ FileOf(c) = "queue" => Ordered(files'["queue"], before)
    BY <2>2, <2>3, NewWhole
  <2>5. ASSUME NEW f \in Files, f # FileOf(c)
        PROVE  Whole(f, files'[f], applied')
    <3>1. ~Rewritten(f, thread)
      BY <2>2, <2>5, OnlyRewritten
    <3>2. QED
      BY <1>0, <2>2, <2>3, <2>5, <3>1 DEF FilesWhole, Whole
  <2>6. FilesWhole(thread', files', applied')
    BY <2>4, <2>5 DEF FilesWhole
  <2>7. \A d \in Calls : thread'[d] \notin {"truncate", "write"}
    BY <2>1, <2>2
  <2>8. InOrder(thread', files', data', before')
    BY <1>0, <2>2, <2>3, <2>4, <2>7 DEF InOrder, Files
  <2>9. ReadersShown(thread', client', status', before', data')
    BY <1>0, <2>1, <2>2 DEF ReadersShown, Reading
  <2>10. QED
    BY <2>6, <2>7, <2>8, <2>9 DEF ShownIn, CopiesWhole
<1>8. ASSUME NEW c \in Calls, Read(c)
      PROVE  Good
  <2> DEFINE s == files[FileOf(c)]
  <2>1. /\ thread[c] = "read" /\ thread'[c] = "reply" /\ data'[c] = s /\ FileOf(c) \in Files
        /\ c \in Reading
        /\ \A d \in Calls \ {c} :
              thread'[d] = thread[d] /\ data'[d] = data[d] /\ status'[d] = status[d]
    BY <1>8, FileOfCall DEF TypeOK, Owners, Read, Reply
  <2>2. files' = files /\ applied' = applied /\ client' = client /\ before' = before
    BY <1>8 DEF Read
  <2>3. \A d \in before[c] : d \in Calls /\ d \in applied /\ FileOf(d) = FileOf(c)
    BY KnownCalls
  <2>4. Shows(c, before, s)
    <3>1. CASE ~Rewritten(FileOf(c), thread)
      <4>1. Whole(FileOf(c), s, applied)
        BY <1>0, <2>1, <3>1 DEF FilesWhole
      <4>2. QED
        BY <2>3, <4>1 DEF Whole, Shows
    <3>2. CASE Rewritten(FileOf(c), thread)
      <4>1. PICK w \in Calls : thread[w] = "write" /\ FileOf(w) = FileOf(c)
        BY <3>2 DEF Rewritten
      <4>2. FileOf(w) \in Files \ {"audit"}
        BY <4>1, FileOfCall DEF TypeOK, Owners, Inside
      <4>3. CASE FileOf(c) = "queue"
        <5>1. Closed(s, applied) /\ Ordered(s, before)
          BY <1>0, <4>3 DEF Queue, QueueIn, InOrder
        <5>2. ASSUME NEW a \in Contents(s), NEW d \in before[c], Adds(a, d)
              PROVE  d \in Contents(s)
          BY <2>3, <5>1, <5>2, InContents DEF Closed
        <5>3. \A a \in Contents(s) : req[a].op = "add" => before[a] \subseteq Contents(s)
          BY <5>1, OrderedShows
        <5>4. QED
          BY <4>3, <5>2, <5>3 DEF Shows
      <4>4. CASE FileOf(c) # "queue" /\ s = <<>>
        BY <4>1, <4>2, <4>4 DEF Shows, Files
      <4>5. CASE FileOf(c) # "queue" /\ s # <<>>
        <5>1. s = New(w)
          BY <4>1, <4>5 DEF Copies
        <5>2. Whole(FileOf(c), s, applied \union {w})
          BY <4>1, <5>1, NewWhole
        <5>3. QED
          BY <2>3, <5>2 DEF Whole, Shows
      <4>6. QED
        BY <4>3, <4>4, <4>5
    <3>3. QED
      BY <3>1, <3>2
  <2> HIDE DEF s
  <2>5. \A d \in Calls : /\ thread'[d] = "write" <=> thread[d] = "write"
                         /\ thread'[d] \in {"truncate", "write"} => thread'[d] = thread[d]
                         /\ thread'[d] \in {"truncate", "write"} => data'[d] = data[d]
    BY <2>1
  <2>6. \A f \in Files : Rewritten(f, thread') = Rewritten(f, thread)
    BY <2>5 DEF Rewritten
  <2>7. FilesWhole(thread', files', applied')
    BY <1>0, <2>2, <2>6 DEF FilesWhole
  <2>8. CopiesWhole(thread', data', applied')
    BY <1>0, <2>2, <2>5 DEF CopiesWhole
  <2>9. InOrder(thread', files', data', before')
    BY <1>0, <2>2, <2>5 DEF InOrder
  <2>10. ReadersShown(thread', client', status', before', data')
    BY <1>0, <2>1, <2>2, <2>4 DEF ReadersShown, Reading
  <2>11. QED
    BY <2>7, <2>8, <2>9, <2>10 DEF ShownIn
<1>9. ASSUME NEW c \in Calls, AppendAudit(c)
      PROVE  Good
  <2>1. /\ FileOf(c) = "audit" /\ c \notin Reading /\ thread'[c] = "reply"
        /\ thread[c] = "append" /\ applied' = applied \union {c} /\ data' = data
        /\ \A d \in Calls \ {c} : thread'[d] = thread[d] /\ status'[d] = status[d]
        /\ files' = [files EXCEPT !["audit"] = Extended(@, {c})]
        /\ client' = client /\ before' = before
    BY <1>9, FileOfCall DEF TypeOK, Owners, AppendAudit, Reply
  <2>2. files'["audit"] = Extended(files["audit"], {c})
        /\ \A f \in Files \ {"audit"} : files'[f] = files[f]
    BY <2>1 DEF TypeOK, Files
  <2>3. ~torn
    BY NotTorn
  <2>4. Contents(files'["audit"]) = Contents(files["audit"]) \union {c}
    BY <2>2, <2>3, AuditExtended
  <2>5. \A d \in Calls : thread[d] \in {"truncate", "write"} => FileOf(d) # "audit"
    BY FileOfCall DEF TypeOK, Owners, Inside
  <2>6. ~Rewritten("audit", thread) /\ "audit" \in Files
    BY <2>5 DEF Rewritten, Files
  <2>7. Whole("audit", files'["audit"], applied')
    BY <1>0, <2>1, <2>4, <2>6 DEF FilesWhole, Whole
  <2>8. \A d \in Calls : /\ thread'[d] = "write" <=> thread[d] = "write"
                         /\ thread'[d] \in {"truncate", "write"} => thread'[d] = thread[d]
    BY <2>1
  <2>9. \A f \in Files : Rewritten(f, thread') = Rewritten(f, thread)
    BY <2>8 DEF Rewritten
  <2>10. FilesWhole(thread', files', applied')
    BY <1>0, <2>1, <2>2, <2>7, <2>9 DEF FilesWhole, Whole
  <2>11. CopiesWhole(thread', data', applied')
    BY <1>0, <2>1, <2>5, <2>8 DEF CopiesWhole, Whole
  <2>12. InOrder(thread', files', data', before')
    BY <1>0, <2>1, <2>2, <2>8 DEF InOrder, Files
  <2>13. ReadersShown(thread', client', status', before', data')
    BY <1>0, <2>1 DEF ReadersShown, Reading
  <2>14. QED
    BY <2>10, <2>11, <2>12, <2>13 DEF ShownIn
<1>10. ASSUME NEW c \in Calls, Fault(c)
       PROVE  Good
  BY <1>10 DEF Fault
<1>11. ASSUME NEW c \in Calls, Answer(c)
       PROVE  Good
  <2>1. Outcome(status[c]) = "ok" => status[c] \in {200, 204}
    BY DEF Outcome
  <2>2. QED
    BY <1>11, <2>1, Quiet DEF TypeOK, Reading, Answer
<1>12. CASE Crash
  BY <1>12 DEF Crash
<1>13. CASE Restart
  BY <1>13, Quiet DEF TypeOK, Reading, Restart
<1>14. CASE UNCHANGED vars
  BY <1>14, Quiet DEF TypeOK, Reading, vars
<1>16. ASSUME NEW c \in Calls, WriteSome(c)
       PROVE  Good
  <2>1. PICK n \in Len(files[FileOf(c)]) .. Len(New(c)) :
           /\ files' = [files EXCEPT ![FileOf(c)] = SubSeq(New(c), 1, n)]
           /\ applied' = applied \union ({c} \cap Contents(SubSeq(New(c), 1, n)))
    BY <1>16 DEF WriteSome
  <2>2. /\ thread[c] = "write" /\ FileOf(c) \in Files /\ thread' = thread /\ data' = data
        /\ client' = client /\ before' = before /\ status' = status
    BY <1>16, FileOfCall DEF TypeOK, WriteSome
  <2>3. /\ files'[FileOf(c)] = SubSeq(New(c), 1, n)
        /\ \A f \in Files : f # FileOf(c) => files'[f] = files[f]
        /\ n \in 0 .. Len(New(c))
    BY <2>1, <2>2, Written DEF TypeOK
  <2>4. Rewritten(FileOf(c), thread)
    BY <2>2 DEF Rewritten
  <2>5. FilesWhole(thread', files', applied')
    BY <1>0, <2>1, <2>2, <2>3, <2>4 DEF FilesWhole, Whole
  <2>6. \A d \in Calls \ {c} : thread[d] # "write"
    BY <2>2 DEF Owners, Inside
  <2>7. CopiesWhole(thread', data', applied')
    BY <1>0, <2>1, <2>2, <2>6 DEF CopiesWhole, Whole
  <2>8. FileOf(c) = "queue" => Ordered(files'["queue"], before)
    BY <2>2, <2>3, NewWhole
  <2>9. InOrder(thread', files', data', before')
    BY <1>0, <2>2, <2>3, <2>8 DEF InOrder, Files
  <2>10. QED
    BY <1>0, <2>2, <2>5, <2>7, <2>9 DEF ShownIn
<1>15. QED
  BY <1>1, <1>2, <1>3, <1>4, <1>5, <1>6, <1>7, <1>8, <1>9, <1>10, <1>11, <1>12, <1>13,
     <1>14, <1>16 DEF Next, Proceed

-----------------------------------------------------------------------------

IInv ==
    /\ TypeOK /\ Owners /\ Histories /\ Queue /\ Promises /\ AuditOK /\ Copies /\ Shown

LEMMA IInvariant == Spec => []IInv
<1>1. Init => IInv
  BY TypeInit, OwnersInit, HistoriesInit, QueueInit, PromisesInit, AuditInit, CopiesInit,
     ShownInit DEF IInv
<1>2. IInv /\ [Next]_vars => IInv'
  BY TypeStep, OwnersStep, HistoriesStep, QueueStep, PromisesStep, AuditStep, CopiesStep,
     ShownStep DEF IInv
<1>3. QED
  BY <1>1, <1>2, PTL DEF Spec

\* Whatever times out, fails and crashes, no item of the queue is decided twice.
THEOREM ServiceDecidesOnce == Spec => []DecidedOnce
<1>1. IInv => DecidedOnce
  BY DEF IInv, Queue, QueueIn, DecidedOnce
<1>2. QED
  BY <1>1, IInvariant, PTL

\* A conflict is the decision of somebody else, and a refused call changes nothing, then
\* or later.
THEOREM ServiceAnswersHold == Spec => []AnswersHold
<1>1. IInv => ConflictIsAnothersDecision
  BY DEF IInv, Promises, ConflictIsAnothersDecision
<1>2. IInv => RefusedChangesNothing
  BY DEF IInv, Promises, RefusedChangesNothing
<1>3. IInv => AnswersHold
  BY <1>1, <1>2 DEF AnswersHold
<1>4. QED
  BY <1>3, IInvariant, PTL

\* Until something fails, a reader sees all that was acknowledged before it asked, or of a
\* file that is being rewritten nothing or, of the queue, the first items in order.
THEOREM ServiceReadsUpToDate == Spec => []ReadsAreUpToDate
<1>1. IInv => ReadsAreUpToDate
  BY DEF IInv, Shown, ShownIn, ReadersShown, Shows, ReadsAreUpToDate
<1>2. QED
  BY <1>1, IInvariant, PTL

\* However often the server crashes and the disk fails, of the acknowledged audit records
\* each time costs one at most.
THEOREM ServiceLosesOnePerFault == Spec => []AuditLosesOnePerFault
<1>1. IInv => AuditLosesOnePerFault
  <2>1. SUFFICES ASSUME IInv
                 PROVE  Cardinality(LostRecords) <= faults
    BY DEF AuditLosesOnePerFault
  <2>2. LostRecords \subseteq Lost
    BY DEF LostRecords, Lost, Told
  <2>3. IsFiniteSet(Lost) /\ Cardinality(Lost) <= faults /\ faults \in Nat
    BY <2>1 DEF IInv, AuditOK, TypeOK
  <2>4. IsFiniteSet(LostRecords) /\ Cardinality(LostRecords) <= Cardinality(Lost)
    BY <2>2, <2>3, FS_Subset
  <2>5. Cardinality(LostRecords) \in Nat /\ Cardinality(Lost) \in Nat
    BY <2>3, <2>4, FS_CardinalityType
  <2>6. QED
    BY <2>3, <2>4, <2>5
<1>2. QED
  BY <1>1, IInvariant, PTL

-----------------------------------------------------------------------------
(* Until something fails the service implements AtomicLog, file by file. *)

Content(f, holder, place, copy, log) ==
    IF holder # NoCall /\ place[holder] = "write" /\ FileOf(holder) = f
    THEN copy[holder] ELSE log[f]

LEMMA ContentNext ==
    ASSUME [Next]_vars, NEW f \in Files
    PROVE  Committed(f)' = Content(f, lock', thread', data', files')
BY Fixed DEF Committed, Content, FileOf

LEMMA AckedNext ==
    ASSUME [Next]_vars, NEW f \in Files,
           \A c \in Calls : client'[c] = "ok" <=> client[c] = "ok"
    PROVE  Acked(f)' = Acked(f)
BY Fixed DEF Acked

\* What was applied to a file is in it, or in the copy that is about to replace it.
LEMMA Retained ==
    ASSUME IInv, faults = 0, NEW c \in applied, thread[c] # "write"
    PROVE  c \in Contents(Committed(FileOf(c)))
<1>1. FileOf(c) \in Files
  BY FileOfCall DEF IInv, TypeOK
<1>2. CASE Rewritten(FileOf(c), thread)
  <2>1. PICK d \in Calls : thread[d] = "write" /\ FileOf(d) = FileOf(c)
    BY <1>2 DEF Rewritten
  <2>2. lock = d /\ Whole(FileOf(d), data[d], applied \ {d})
    BY <2>1 DEF IInv, Owners, Inside, Shown, ShownIn, CopiesWhole
  <2>3. d # NoCall
    BY <2>1
  <2>4. QED
    BY <2>1, <2>2, <2>3 DEF Committed, Whole
<1>3. CASE ~Rewritten(FileOf(c), thread)
  <2>1. Whole(FileOf(c), files[FileOf(c)], applied)
    BY <1>1, <1>3 DEF IInv, Shown, ShownIn, FilesWhole
  <2>2. Committed(FileOf(c)) = files[FileOf(c)]
    BY <1>3 DEF Committed, Rewritten, IInv, TypeOK
  <2>3. QED
    BY <2>1, <2>2 DEF Whole
<1>4. QED
  BY <1>2, <1>3

\* AtomicLog's step for an update of one line.
LEMMA LogApply ==
    ASSUME NEW f \in Files, NEW c \in Calls, NEW n \in Slots(Committed(f)),
           c \notin Contents(Committed(f)), Committed(f)' = With(Committed(f), n, c),
           Acked(f)' = Acked(f)
    PROVE  Log(f)!Next
BY DEF Log!Next, Log!Apply, Log!Contents, Log!With, Log!Range, Contents, With, Range, Slots

LEMMA LogStep ==
    ASSUME IInv, [Next]_vars, faults' = 0, NEW f \in Files
    PROVE  Log(f)!Next \/ UNCHANGED <<Committed(f), Acked(f)>>
<1> DEFINE after == Content(f, lock', thread', data', files')
           Good == Log(f)!Next \/ UNCHANGED <<Committed(f), Acked(f)>>
<1>0. TypeOK /\ Owners /\ Histories /\ Promises /\ AuditOK /\ Copies /\ Committed(f)' = after /\ faults = 0
  BY ContentNext, NoFaultYet DEF IInv
<1> HIDE DEF after
<1>1. ASSUME after = Committed(f), \A d \in Calls : client'[d] = "ok" <=> client[d] = "ok"
      PROVE  Good
  BY <1>0, <1>1, AckedNext
<1>2. ASSUME NEW c \in Calls, Send(c)
      PROVE  Good
  BY <1>0, <1>1, <1>2 DEF TypeOK, Send, Committed, Content, after
<1>3. ASSUME NEW c \in Calls, Fail(c)
      PROVE  Good
  BY <1>0, <1>1, <1>3 DEF TypeOK, Fail, Committed, Content, after
<1>4. ASSUME NEW c \in Calls, Arrive(c)
      PROVE  Good
  BY <1>0, <1>1, <1>4 DEF TypeOK, Arrive, Reply, Committed, Content, after
<1>5. ASSUME NEW c \in Calls, Acquire(c)
      PROVE  Good
  BY <1>0, <1>1, <1>5 DEF TypeOK, Acquire, Committed, Content, after
<1>6. ASSUME NEW c \in Calls, Load(c)
      PROVE  Good
  <2>1. lock = c /\ thread[c] = "load" /\ (lock' = NoCall \/ (lock' = c /\ thread'[c] = "truncate"))
    BY <1>0, <1>6 DEF TypeOK, Owners, Inside, Load
  <2>2. QED
    BY <1>0, <1>1, <1>6, <2>1 DEF TypeOK, Load, Committed, Content, after
<1>7. ASSUME NEW c \in Calls, Truncate(c)
      PROVE  Good
  <2>1. lock = c /\ thread[c] = "truncate" /\ thread'[c] = "write" /\ data[c] = files[FileOf(c)]
    BY <1>0, <1>7 DEF TypeOK, Owners, Inside, Copies, Truncate
  <2>2. QED
    BY <1>0, <1>1, <1>7, <2>1 DEF TypeOK, Truncate, Committed, Content, after
<1>8. ASSUME NEW c \in Calls, Write(c)
      PROVE  Good
  <2>1. /\ lock = c /\ thread[c] = "write" /\ lock' = NoCall
        /\ c \notin Contents(data[c]) /\ FileOf(c) \in Files /\ c # NoCall
    BY <1>0, <1>8, FileOfCall DEF TypeOK, Owners, Inside, Histories, Early, Write
  <2>2. CASE f = FileOf(c)
    <3>1. Committed(f) = data[c] /\ after = New(c)
      BY <1>0, <1>8, <2>1, <2>2 DEF TypeOK, Write, Committed, Content, after
    <3>2. Acked(f)' = Acked(f)
      <4>1. \A d \in Calls : client'[d] = client[d]
        BY <1>8 DEF Write
      <4>2. QED
        BY <4>1, AckedNext
    <3>3. PICK n \in Slots(data[c]) : New(c) = With(data[c], n, c)
      BY <1>0, NewLine
    <3>4. QED
      BY <1>0, <2>1, <3>1, <3>2, <3>3, LogApply
  <2>3. CASE f # FileOf(c)
    BY <1>0, <1>1, <1>8, <2>1, <2>3 DEF TypeOK, Write, Committed, Content, after
  <2>4. QED
    BY <2>2, <2>3
<1>9. ASSUME NEW c \in Calls, Read(c)
      PROVE  Good
  BY <1>0, <1>1, <1>9 DEF TypeOK, Read, Reply, Committed, Content, after
<1>10. ASSUME NEW c \in Calls, AppendAudit(c)
       PROVE  Good
  <2>1. /\ thread[c] = "append" /\ thread' = [thread EXCEPT ![c] = "reply"]
        /\ files' = [files EXCEPT !["audit"] = Extended(@, {c})]
        /\ lock' = lock /\ data' = data /\ client' = client
    BY <1>10 DEF AppendAudit, Reply
  <2>2. c \notin Contents(files["audit"])
    BY <1>0, <2>1 DEF Histories, Early, Files
  <2>3. lock # NoCall /\ thread[lock] = "write" => FileOf(lock) # "audit"
    BY <1>0, FileOfCall DEF TypeOK, Owners, Inside
  <2>4. CASE f = "audit"
    <3>1. Committed(f) = files["audit"] /\ after = Extended(files["audit"], {c})
      BY <1>0, <2>1, <2>3, <2>4 DEF TypeOK, Committed, Content, after
    <3>2. Acked(f)' = Acked(f)
      <4>1. \A d \in Calls : client'[d] = client[d]
        BY <2>1
      <4>2. QED
        BY <4>1, AckedNext
    <3>3. ~torn
      BY <1>0, NotTorn
    <3>4. /\ Extended(files["audit"], {c}) = Append(files["audit"], {c})
          /\ files["audit"] \in Text
      BY <1>0, <3>3, AuditExtended
    <3>5. /\ Len(files["audit"]) + 1 \in Slots(files["audit"])
          /\ Append(files["audit"], {c}) = With(files["audit"], Len(files["audit"]) + 1, c)
      BY <3>4, TextFacts DEF Slots, With
    <3>6. QED
      BY <1>0, <2>2, <3>1, <3>2, <3>4, <3>5, LogApply
  <2>5. CASE f # "audit"
    BY <1>0, <1>1, <2>1, <2>5 DEF TypeOK, Committed, Content, after
  <2>6. QED
    BY <2>4, <2>5
<1>11. ASSUME NEW c \in Calls, Answer(c)
       PROVE  Good
  <2>1. thread[c] = "reply" /\ after = Committed(f)
    BY <1>0, <1>11 DEF TypeOK, Answer, Committed, Content, after
  <2>2. \A d \in Calls \ {c} : client'[d] = client[d]
    BY <1>0, <1>11 DEF TypeOK, Answer
  <2>3. CASE client'[c] = "ok" /\ client[c] # "ok" /\ c \notin Reading /\ FileOf(c) = f
    <3>1. status[c] \in {200, 204}
      BY <1>0, <1>11, <2>3 DEF TypeOK, Answer, Outcome
    <3>2. c \in Contents(Committed(f))
      BY <1>0, <2>1, <2>3, <3>1, Retained DEF Promises
    <3>3. Acked(f)' = Acked(f) \union {c}
      BY <1>0, <2>2, <2>3, Fixed DEF Acked
    <3>4. QED
      BY <1>0, <2>1, <3>2, <3>3 DEF Log!Next, Log!Acknowledge, Log!Contents, Log!Range,
                                       Contents, Range
  <2>4. CASE ~(client'[c] = "ok" /\ client[c] # "ok" /\ c \notin Reading /\ FileOf(c) = f)
    <3>1. client[c] = "ok" => client'[c] = "ok"
      BY <1>0, <1>11 DEF TypeOK, Answer
    <3>2. Acked(f)' = Acked(f)
      BY <2>2, <2>4, <3>1, Fixed DEF Acked
    <3>3. QED
      BY <1>0, <2>1, <3>2
  <2>5. QED
    BY <2>3, <2>4
<1>12. CASE Restart
  BY <1>0, <1>1, <1>12 DEF TypeOK, Restart, Committed, Content, after
<1>13. CASE UNCHANGED vars
  BY <1>0, <1>1, <1>13 DEF TypeOK, vars, Committed, Content, after
<1>14. ASSUME NEW c \in Calls, Fault(c)
       PROVE  FALSE
  BY <1>0, <1>14 DEF TypeOK, Fault
<1>15. ~Crash
  BY <1>0 DEF TypeOK, Crash
<1>17. ASSUME NEW c \in Calls, WriteSome(c)
       PROVE  Good
  <2>1. lock = c /\ thread[c] = "write" /\ thread' = thread /\ data' = data /\ lock' = lock
    BY <1>0, <1>17 DEF Owners, Inside, WriteSome
  <2>2. client' = client /\ \A g \in Files : g # FileOf(c) => files'[g] = files[g]
    BY <1>0, <1>17 DEF TypeOK, WriteSome
  <2>3. c # NoCall
    OBVIOUS
  <2>4. after = Committed(f)
    BY <1>0, <2>1, <2>2, <2>3 DEF Committed, Content, after
  <2>5. QED
    BY <1>1, <2>2, <2>4
<1>16. QED
  BY <1>2, <1>3, <1>4, <1>5, <1>6, <1>7, <1>8, <1>9, <1>10, <1>11, <1>12, <1>13, <1>14,
     <1>15, <1>17 DEF Next, Proceed

\* One lock serves three files that are rewritten, the audit log is appended to without it,
\* and clients give up at any moment: still, until something fails, each file is a log of
\* its calls, each applied in one step, once, and before its client is told.
THEOREM ServiceServesAtomicLogs == Spec => ServesAtomicLogs
<1>1. Init => \A f \in Files : Log(f)!Init
  BY DEF Init, Log!Init, Committed, Acked
<1>2. IInv /\ [Next]_vars =>
        [faults' = 0 => \A f \in Files :
            Log(f)!Next \/ UNCHANGED <<Committed(f), Acked(f)>>]_vars
  BY LogStep
<1>3. QED
  BY <1>1, <1>2, IInvariant, PTL DEF Spec, ServesAtomicLogs
=============================================================================
