----------------------------- MODULE CommandText -----------------------------
(***************************************************************************)
(* From the text of an FFmpeg command to the arguments of the process      *)
(* (worker/main.go:199-205): expandPlaceholders replaces the placeholder   *)
(* of every input and output by its path, in the order in which Go happens *)
(* to walk the two maps, and parseCommandArgs then splits the expanded     *)
(* text, rune by rune.                                                     *)
(*                                                                         *)
(* A text is a sequence of runes; the placeholder {{key}} is one element,  *)
(* the key: two braces and a name that only a path puts together are none. *)
(* Runes are told apart as far as the parser does: "sp" is the space, "dq" *)
(* and "sq" are the quotes.                                                *)
(***************************************************************************)
EXTENDS Naturals, Sequences, SequencesExt

CONSTANTS
  Letters,   \* runes without a meaning of their own
  Inputs,    \* keys of input_files
  Outputs,   \* keys of output_files
  Paths,     \* the paths a key may stand for
  MaxLength  \* BOUND: elements of a command

Quotes == {"dq", "sq"}
Keys   == Inputs \cup Outputs
Runes  == Letters \cup Keys \cup Quotes \cup {"sp"}

ASSUME TextAssumption ==
  /\ Letters \cap (Keys \cup Quotes \cup {"sp"}) = {}
  /\ Keys \cap (Quotes \cup {"sp"}) = {}
  /\ "none" \notin Runes
  /\ Paths \subseteq Seq(Runes) \ {<<>>}
  /\ MaxLength \in Nat

VARIABLES
  cmd,      \* the command of the request
  inPath,   \* where each input was downloaded to
  outPath,  \* where each output goes to
  text,     \* result, in expandPlaceholders
  inputs,   \* inputs the first loop has still to visit
  outputs,  \* outputs the second loop has still to visit
  rest,     \* what parseCommandArgs has still to read
  current,  \* its current argument
  quote,    \* quoteChar, "none" outside quotes
  args,     \* its arguments so far
  pc        \* "expand", "parse", "done"

vars == <<cmd, inPath, outPath, text, inputs, outputs, rest, current, quote, args, pc>>

\* s with every element replaced by the text that h has for it.
Each(s, h) == FlattenSeq([i \in DOMAIN s |-> h[s[i]]])

ReplacePlaceholder(s, k, p) == Each(s, [x \in Runes |-> IF x = k THEN p ELSE <<x>>])

Init ==
  /\ cmd \in BoundedSeq(Runes, MaxLength)
  /\ inPath \in [Inputs -> Paths]
  /\ outPath \in [Outputs -> Paths]
  /\ text = cmd
  /\ inputs = Inputs
  /\ outputs = Outputs
  /\ rest = <<>> /\ current = <<>> /\ quote = "none" /\ args = <<>>
  /\ pc = "expand"

(***************************************************************************)
(* expandPlaceholders.                                                     *)
(***************************************************************************)
ExpandInput(k) ==
  /\ pc = "expand"
  /\ k \in inputs
  /\ text' = ReplacePlaceholder(text, k, inPath[k])
  /\ inputs' = inputs \ {k}
  /\ UNCHANGED <<cmd, inPath, outPath, outputs, rest, current, quote, args, pc>>

ExpandOutput(k) ==
  /\ pc = "expand"
  /\ inputs = {}
  /\ k \in outputs
  /\ text' = ReplacePlaceholder(text, k, outPath[k])
  /\ outputs' = outputs \ {k}
  /\ UNCHANGED <<cmd, inPath, outPath, inputs, rest, current, quote, args, pc>>

Expanded ==
  /\ pc = "expand"
  /\ inputs = {} /\ outputs = {}
  /\ rest' = text
  /\ pc' = "parse"
  /\ UNCHANGED <<cmd, inPath, outPath, text, inputs, outputs, current, quote, args>>

(***************************************************************************)
(* parseCommandArgs: one action per case of its switch.                    *)
(***************************************************************************)
Reading(x) ==
  /\ pc = "parse"
  /\ rest # <<>>
  /\ x = Head(rest)
  /\ rest' = Tail(rest)
  /\ UNCHANGED <<cmd, inPath, outPath, text, inputs, outputs, pc>>

OpenQuote(x) ==
  /\ Reading(x)
  /\ x \in Quotes /\ quote = "none"
  /\ quote' = x
  /\ UNCHANGED <<current, args>>

CloseQuote(x) ==
  /\ Reading(x)
  /\ x = quote
  /\ quote' = "none"
  /\ UNCHANGED <<current, args>>

\* if current.Len() > 0
Flush ==
  /\ args' = IF current = <<>> THEN args ELSE Append(args, current)
  /\ current' = <<>>

\* Mutants: quotes do not protect a space; an empty argument is kept.
SeparateAlways(x) ==
  /\ Reading(x)
  /\ x = "sp"
  /\ Flush
  /\ UNCHANGED quote

SeparateEmpty(x) ==
  /\ Reading(x)
  /\ x = "sp" /\ quote = "none"
  /\ args' = Append(args, current)
  /\ current' = <<>>
  /\ UNCHANGED quote

Separate(x) ==
  /\ Reading(x)
  /\ x = "sp" /\ quote = "none"
  /\ Flush
  /\ UNCHANGED quote

Take(x) ==
  /\ Reading(x)
  /\ x # quote
  /\ quote = "none" => x \notin Quotes \cup {"sp"}
  /\ current' = Append(current, x)
  /\ UNCHANGED <<quote, args>>

\* Also with a quote that was never closed.
Finish ==
  /\ pc = "parse"
  /\ rest = <<>>
  /\ Flush
  /\ pc' = "done"
  /\ UNCHANGED <<cmd, inPath, outPath, text, inputs, outputs, rest, quote>>

Next ==
  \/ \E k \in Inputs : ExpandInput(k)
  \/ \E k \in Outputs : ExpandOutput(k)
  \/ Expanded
  \/ \E x \in Runes :
       OpenQuote(x) \/ CloseQuote(x) \/ Separate(x) \/ Take(x)
  \/ Finish

Spec == Init /\ [][Next]_vars

-----------------------------------------------------------------------------
\* What the arguments of s should be, told without a parser: InQuote(s)[i] is
\* the quote that is open after i elements; a mark is an element that opens
\* or closes one; an argument is what lies between gaps, that is, spaces
\* outside quotes, without the marks, unless nothing is left.
After(open, x) ==
  IF open = "none" /\ x \in Quotes THEN x ELSE IF x = open THEN "none" ELSE open

InQuote(s) ==
  LET open[i \in 0 .. Len(s)] == IF i = 0 THEN "none" ELSE After(open[i - 1], s[i])
  IN open

Mark(s, i) == InQuote(s)[i] # InQuote(s)[i - 1]
Gap(s, i)  == s[i] = "sp" /\ InQuote(s)[i - 1] = "none"

\* What lies between the last gap of the first i elements and the next one.
Piece(s, i) ==
  FlattenSeq([n \in 1 .. i |->
                IF Mark(s, n) \/ \E g \in n .. i : Gap(s, g) THEN <<>> ELSE <<s[n]>>])

Intended(s) ==
  FlattenSeq([i \in 1 .. Len(s) + 1 |->
                IF (i = Len(s) + 1 \/ Gap(s, i)) /\ Piece(s, i - 1) # <<>>
                THEN <<Piece(s, i - 1)>> ELSE <<>>])

\* What a key stands for: an input hides an output of the same key.
PathOf(k) == IF k \in Inputs THEN inPath[k] ELSE outPath[k]

\* p with every placeholder replaced by its path, once.
Resolve(p) == Each(p, [x \in Runes |-> IF x \in Keys THEN PathOf(x) ELSE <<x>>])

Plain(p) == \A i \in DOMAIN p : p[i] \in Letters

PlainPaths ==
  /\ \A k \in Inputs : Plain(inPath[k])
  /\ \A k \in Outputs : Plain(outPath[k])

(***************************************************************************)
(* FFmpeg gets the arguments of the expanded text.  When no path has a     *)
(* space, a quote or a placeholder in it, they are the arguments of the    *)
(* command as it was written, with the placeholders resolved in each:      *)
(* expanding first and splitting afterwards, in whatever order the maps    *)
(* are walked, makes no difference.  With other paths the order may matter *)
(* (main.go:340-347); then only the splitting is as intended.              *)
(***************************************************************************)
ArgumentsAsIntended ==
  pc = "done" =>
    /\ args = Intended(text)
    /\ PlainPaths =>
         args = [j \in DOMAIN Intended(cmd) |-> Resolve(Intended(cmd)[j])]

(***************************************************************************)
(* FFmpeg never gets an empty argument, and the parser loses no rune but   *)
(* spaces outside quotes and the quotes themselves: what it has read is in *)
(* its arguments and its current one.                                      *)
(***************************************************************************)
Content(s) == Each(s, [x \in Runes |-> IF x \in Quotes \cup {"sp"} THEN <<>> ELSE <<x>>])

NothingLost ==
  /\ \A j \in DOMAIN args : args[j] # <<>>
  /\ pc # "expand" => Content(FlattenSeq(args) \o current \o rest) = Content(text)

=============================================================================
