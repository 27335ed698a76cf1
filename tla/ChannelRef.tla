------------------------------ MODULE ChannelRef ------------------------------
(***************************************************************************)
(* LezClient::parseChannelRef: the channel id and the optional "@slot" hint*)
(* in whatever text the user pastes.  The regular expression is run as the *)
(* automaton it stands for, one character at a time; ids have IdLength hex *)
(* digits in the place of 64.                                              *)
(***************************************************************************)
EXTENDS Naturals, Sequences

CONSTANTS
  IdLength,             \* hex digits of a channel id
  MaxDigits,            \* decimal digits of the largest number toLongLong reads
  MaxText               \* bound on the length of a text

ASSUME RefAssumption == IdLength \in Nat \ {0} /\ MaxDigits \in Nat \ {0}

VARIABLES
  text,                 \* the text so far
  matcher,              \* where the match is: "seek", "id", "at", "digits", "done"
  run,                  \* the hex digits of the id
  digits                \* the digits of the hint

refVars == <<text, matcher, run, digits>>

Decimal == {"7"}
Lower(ch) == IF ch = "A" THEN "a" ELSE ch
Hex == Decimal \cup {"a", "A"}
Char == Hex \cup {"@", "x"}

RefInit == text = <<>> /\ matcher = "seek" /\ run = <<>> /\ digits = <<>>

Typed(ch) == Len(text) < MaxText /\ text' = Append(text, ch)

\* The leftmost run of IdLength hex digits is the id.
Seek(ch) ==
  /\ matcher = "seek" /\ Typed(ch)
  /\ run' = IF ch \in Hex THEN Append(run, Lower(ch)) ELSE <<>>
  /\ matcher' = IF Len(run') = IdLength THEN "id" ELSE "seek"
  /\ UNCHANGED digits

\* Faulty variant: an "@" anywhere behind the id starts the hint.
AfterIdUnanchored(ch) ==
  /\ matcher = "id" /\ Typed(ch)
  /\ matcher' = IF ch = "@" THEN "at" ELSE "id"
  /\ UNCHANGED <<run, digits>>

\* Only an "@" right behind the id starts the hint.
AfterId(ch) ==
  /\ matcher = "id" /\ Typed(ch)
  /\ matcher' = IF ch = "@" THEN "at" ELSE "done"
  /\ UNCHANGED <<run, digits>>

Hint(ch) ==
  /\ matcher \in {"at", "digits"} /\ Typed(ch)
  /\ IF ch \in Decimal
     THEN matcher' = "digits" /\ digits' = Append(digits, ch)
     ELSE matcher' = "done" /\ UNCHANGED digits
  /\ UNCHANGED run

\* Nothing behind the match is looked at.
Rest(ch) == matcher = "done" /\ Typed(ch) /\ UNCHANGED <<matcher, run, digits>>

RefNext == \E ch \in Char : Seek(ch) \/ AfterId(ch) \/ Hint(ch) \/ Rest(ch)

RefSpec == RefInit /\ [][RefNext]_refVars

\* The answer for the text so far: a channel and a hint, where <<>> stands for the
\* start slot 0 (no hint, or a number beyond 64 bits), or invalid_channel_ref.
Invalid == [channel |-> <<>>, hint |-> <<>>]
Parsed ==
  IF matcher = "seek" THEN Invalid
  ELSE [channel |-> run, hint |-> IF Len(digits) <= MaxDigits THEN digits ELSE <<>>]

-----------------------------------------------------------------------------
\* The places of the text where IdLength hex digits stand in a row.
IdPlaces == {p \in DOMAIN text : \A k \in p..p + IdLength - 1 : k \in DOMAIN text /\ text[k] \in Hex}
IdPlace == CHOOSE p \in IdPlaces : \A q \in IdPlaces : p <= q

\* The places behind p + IdLength whose digits, all the way from the "@", are decimal.
HintPlaces(at) == {k \in DOMAIN text : k > at /\ \A j \in at + 1..k : text[j] \in Decimal}

\* A text names the first channel id in it, in lower case whatever its case, and a
\* slot counts only when anchored to that very id (the comment in parseChannelRef:
\* "an unrelated @123 elsewhere in a pasted URL must not become a slot hint").
HintIsAnchored ==
  Parsed =
    IF IdPlaces = {} THEN Invalid
    ELSE LET p == IdPlace
             at == p + IdLength
             hint == IF at \in DOMAIN text /\ text[at] = "@" THEN HintPlaces(at) ELSE {}
         IN [channel |-> [k \in 1..IdLength |-> Lower(text[p + k - 1])],
             hint |-> IF hint = {} \/ \E k \in hint : k > at + MaxDigits THEN <<>>
                      ELSE [k \in 1..(CHOOSE n \in 1..MaxDigits :
                                        at + n \in hint /\ at + n + 1 \notin hint) |-> text[at + k]]]
==============================================================================
