------------------------------ MODULE ManagedBlock ------------------------------
(***************************************************************************)
(* The block in the body of a pull request that names its dependencies:    *)
(* reading it, and writing it into whatever a person has typed.  A body is *)
(* a sequence of tokens: the two markers, a line of references for each    *)
(* set, other text, and newlines.  White space around a line, and whether  *)
(* a newline is preceded by a carriage return, are left out.               *)
(***************************************************************************)
EXTENDS Integers, FiniteSets, Sequences

CONSTANTS Sources  \* the bodies people have typed

References == [one |-> {1}, two |-> {2}, both |-> {1, 2}, nothing |-> {}]
Token == {"start", "end", "prose", "newline"} \cup DOMAIN References
Wanted == {References[t] : t \in DOMAIN References}


VARIABLES source, \* the body as it was typed
          doc,    \* the body
          asked   \* the prerequisites that were last written, as a set of at most one set

vars == <<source, doc, asked>>
-----------------------------------------------------------------------------
(* scanLines: a line is known by its first position *)
Lines(text) == {i \in 1 .. Len(text) : i = 1 \/ text[i - 1] = "newline"}
EndOf(text, i) ==
  CHOOSE j \in i .. Len(text) + 1 :
    /\ j = Len(text) + 1 \/ text[j] = "newline"
    /\ \A k \in i .. j - 1 : text[k] # "newline"
Line(text, i) == SubSeq(text, i, EndOf(text, i) - 1)
Least(S) == CHOOSE x \in S : \A y \in S : x <= y

(* locateManagedBlock *)
Marked(text, marker) == {i \in Lines(text) : Line(text, i) = <<marker>>}
NoBlock(text) == Marked(text, "start") = {} /\ Marked(text, "end") = {}
Located(text) ==
  /\ Cardinality(Marked(text, "start")) = 1 /\ Cardinality(Marked(text, "end")) = 1
  /\ Least(Marked(text, "start")) < Least(Marked(text, "end"))
First(text) == Least(Marked(text, "start"))

Last(text) == EndOf(text, Least(Marked(text, "end"))) - 1

(* parseManagedDependencyBlock: no set, when the block is invalid *)
Parse(text) ==
  IF NoBlock(text) THEN {{}}
  ELSE IF ~Located(text) THEN {}
  ELSE LET content == SubSeq(text, First(text) + 2, Least(Marked(text, "end")) - 1)
           meaningful == {i \in Lines(content) : Line(content, i) # <<>>}
       IN  IF Cardinality(meaningful) = 1 /\ Len(Line(content, Least(meaningful))) = 1
              /\ content[Least(meaningful)] \in DOMAIN References
           THEN {References[content[Least(meaningful)]]} ELSE {}
-----------------------------------------------------------------------------
(* synchronizeManagedDependencyBlock *)
Render(S) == <<"start", "newline", CHOOSE t \in DOMAIN References : References[t] = S, "newline", "end">>

Ends(text, suffix) ==
  Len(text) >= Len(suffix) /\ SubSeq(text, Len(text) - Len(suffix) + 1, Len(text)) = suffix

\* getAppendSeparator
Separator(text) ==
  IF text = <<>> \/ Ends(text, <<"newline", "newline">>) THEN <<>>
  ELSE IF Ends(text, <<"newline">>) THEN <<"newline">> ELSE <<"newline", "newline">>

\* Mutant of Synchronized: the text after the block is not put back.
SynchronizedTail(text, S) ==
  IF NoBlock(text)
  THEN IF S = {} THEN text ELSE text \o Separator(text) \o Render(S)
  ELSE SubSeq(text, 1, First(text) - 1) \o (IF S = {} THEN <<>> ELSE Render(S))

Synchronized(text, S) ==
  IF NoBlock(text)
  THEN IF S = {} THEN text ELSE text \o Separator(text) \o Render(S)
  ELSE SubSeq(text, 1, First(text) - 1) \o (IF S = {} THEN <<>> ELSE Render(S))
         \o SubSeq(text, Last(text) + 1, Len(text))

Write(S) ==
  /\ NoBlock(doc) \/ Located(doc)
  /\ doc' = Synchronized(doc, S)
  /\ asked' = {S}
  /\ UNCHANGED source
-----------------------------------------------------------------------------
Init == source \in Sources /\ doc = source /\ asked = {}

Next == \E S \in Wanted : Write(S)

Spec == Init /\ [][Next]_vars
-----------------------------------------------------------------------------
(* Properties *)

\* What was written is what is read back, whatever surrounds the block and however
\* often it was written before.
WrittenIsRead == asked # {} => Parse(doc) = asked

\* Writing what the body says already changes nothing: the webhook of a write brings no
\* other one about.
WritingIsIdempotent == \A S \in asked : Synchronized(doc, S) = doc

\* What a person has typed outside the block stays, token by token, also when what the
\* block held was not valid.
Outside(text) ==
  LET prose(s) == SelectSeq(s, LAMBDA t : t = "prose")
  IN  IF Located(text)
      THEN prose(SubSeq(text, 1, First(text) - 1)) \o prose(SubSeq(text, Last(text) + 1, Len(text)))
      ELSE prose(text)
ProseIsKept == Outside(doc) = Outside(source)
=============================================================================
