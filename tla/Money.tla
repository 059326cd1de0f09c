------------------------------- MODULE Money --------------------------------
(***************************************************************************)
(* Amounts of money on their way in and out: text is parsed into minor     *)
(* units of a machine word, written back with two decimals, and fees are   *)
(* computed in the same word.                                              *)
(*                                                                         *)
(* A text is a sequence of characters.  The word holds MinInt..MaxInt and  *)
(* wraps around as Go's int64 does.  A client types a text and sends it;   *)
(* the server answers with the amount it read, or refuses it.              *)
(***************************************************************************)
EXTENDS Integers, SequencesExt

CONSTANTS
    Alphabet,   \* the characters the client has
    MaxLen,     \* bound: the longest text typed
    MaxInt,     \* the largest value of the word (2^63 - 1)
    Unit,       \* basis points of a whole (10000)
    minimumDepositAmount   \* the smallest deposit (1000)

ASSUME MoneyAssumption ==
    /\ MaxLen \in Nat /\ MaxInt \in Nat /\ minimumDepositAmount \in Nat
    /\ Unit \in Nat \ {0} /\ Unit % 2 = 0

(* The cents of the least word have one digit, as those of -2^63 do. *)
ASSUME WordAssumption == (MaxInt + 1) % 100 < 10

VARIABLES
    text,       \* what is typed, or what was answered
    amount,     \* the amount answered
    from        \* who wrote text: the client or the server

vars == <<text, amount, from>>

MinInt == -MaxInt - 1
Words  == MinInt..MaxInt

Wrap(n) == ((n - MinInt) % (2 * (MaxInt + 1))) + MinInt

(* Division and remainder truncate towards zero. *)
Quo(n, d) == IF n >= 0 THEN n \div d ELSE -((-n) \div d)
Rem(n, d) == n - d * Quo(n, d)

Digits  == <<"0", "1", "2", "3", "4", "5", "6", "7", "8", "9">>
Char(d) == Digits[d + 1]
Digit   == [c \in {Char(d) : d \in 0..9} |-> CHOOSE d \in 0..9 : Char(d) = c]

Signs   == {"+", "-"}
Invalid == [ok |-> FALSE]
Ok(n)   == [ok |-> TRUE, value |-> n]

-----------------------------------------------------------------------------
(* Reading *)

AllDigits(s) == \A i \in DOMAIN s : s[i] \in DOMAIN Digit
Number(s)    == FoldLeft(LAMBDA n, c : 10 * n + Digit[c], 0, s)

(* strconv.ParseInt, which takes a sign of its own. *)
ParseInt(s) ==
    LET signed == s # <<>> /\ Head(s) \in Signs
        body   == IF signed THEN Tail(s) ELSE s
        n      == IF signed /\ Head(s) = "-" THEN -Number(body) ELSE Number(body)
    IN  IF body # <<>> /\ AllDigits(body) /\ n \in Words THEN Ok(n) ELSE Invalid

TrimSpace(s) ==
    LET kept == {i \in DOMAIN s : s[i] # " "}
    IN  IF kept = {} THEN <<>> ELSE SubSeq(s, Min(kept), Max(kept))

Dots(s)   == {i \in DOMAIN s : s[i] = "."}
Whole(s)  == IF Dots(s) = {} THEN s ELSE SubSeq(s, 1, Min(Dots(s)) - 1)
Fraction(s) == IF Dots(s) = {} THEN <<>> ELSE SubSeq(s, Min(Dots(s)) + 1, Len(s))

(* variant: one decimal is taken for hundredths *)
PadLeft(s) == [i \in 1..(2 - Len(s)) |-> "0"] \o s

Pad(s) == s \o [i \in 1..(2 - Len(s)) |-> "0"]

TooLarge(whole, cents) == whole > Quo(Wrap(MaxInt - cents), 100)

(* variant: a third decimal is taken *)
AnyFraction(f) == TRUE

FractionFits(f) == Len(f) <= 2

ParseMoney(value) ==
    LET trimmed  == TrimSpace(value)
        negative == trimmed # <<>> /\ Head(trimmed) = "-"
        s        == IF negative THEN Tail(trimmed) ELSE trimmed
        whole    == ParseInt(Whole(s))
        cents    == ParseInt(Pad(Fraction(s)))
        result   == Wrap(whole.value * 100 + cents.value)
    IN
    IF \/ trimmed = <<>>
       \/ \E i \in DOMAIN trimmed : trimmed[i] \in {"e", "E"}
       \/ Cardinality(Dots(s)) > 1
       \/ Whole(s) = <<>>
       \/ ~FractionFits(Fraction(s))
       \/ ~whole.ok
       \/ ~cents.ok
       \/ TooLarge(whole.value, cents.value)
    THEN Invalid
    ELSE Ok(IF negative THEN Wrap(-result) ELSE result)

(* The quotes of a JSON string are taken off; a number is its own text. *)
UnmarshalJSON(data) == ParseMoney(data)

-----------------------------------------------------------------------------
(* Writing *)

Decimal[n \in 0..(MaxInt + 1)] ==
    IF n < 10 THEN <<Char(n)>> ELSE Append(Decimal[n \div 10], Char(n % 10))

Signed(n) == IF n < 0 THEN <<"-">> \o Decimal[-n] ELSE Decimal[n]

(* variant: cents below ten are written with one digit *)
Unpadded(n) == Signed(n)

TwoDigits(n) == IF n \in 0..9 THEN <<"0">> \o Signed(n) ELSE Signed(n)

String(m) ==
    LET n == IF m < 0 THEN Wrap(-m) ELSE m
    IN  (IF m < 0 THEN <<"-">> ELSE <<>>) \o Signed(Quo(n, 100)) \o <<".">> \o TwoDigits(Rem(n, 100))

MarshalJSON(m) == String(m)

-----------------------------------------------------------------------------
(* Fees *)

(* variant: the fee is rounded down *)
RoundedDown(m, basisPoints) == Quo(Wrap(m * basisPoints), Unit)

VariableFee(m, basisPoints) == Quo(Wrap(m * basisPoints + Unit \div 2), Unit)

-----------------------------------------------------------------------------

(* The server answers with any amount it has, or the client begins. *)
Init ==
    \/ from = "client" /\ amount = 0 /\ text = <<>>
    \/ \E m \in Words : from = "server" /\ amount = m /\ text = MarshalJSON(m)

Type(c) ==
    /\ from = "client"
    /\ Len(text) < MaxLen
    /\ text' = Append(text, c)
    /\ UNCHANGED <<amount, from>>

StartOver == from' = "client" /\ amount' = 0 /\ text' = <<>>

(* POST /deposit: the handler decodes the request, and the answer repeats  *)
(* the amount.  What is no amount, or less than the minimum, is refused,   *)
(* as is a deposit the store does not take.                                *)
Post ==
    /\ from = "client"
    /\ LET read == UnmarshalJSON(text)
       IN  \/ /\ read.ok /\ read.value >= minimumDepositAmount
              /\ from' = "server"
              /\ amount' = read.value
              /\ text' = MarshalJSON(read.value)
           \/ StartOver

Next == (\E c \in Alphabet : Type(c)) \/ Post \/ (from = "server" /\ StartOver)

Spec == Init /\ [][Next]_vars

-----------------------------------------------------------------------------
(* Properties *)

(* A decimal: a minus or none, digits, and up to two more after a point. *)
Unsigned(s) == IF s # <<>> /\ Head(s) = "-" THEN Tail(s) ELSE s

IsDecimal(s) ==
    LET body == Unsigned(s)
        dots == {i \in DOMAIN body : body[i] = "."}
    IN  /\ \A i \in DOMAIN body \ dots : body[i] \in DOMAIN Digit
        /\ dots \subseteq {i \in 2..Len(body) : i >= Len(body) - 2}
        /\ Cardinality(dots) <= 1 /\ body # <<>>

TenTo[k \in 0..(MaxLen + 1)] == IF k = 0 THEN 1 ELSE 10 * TenTo[k - 1]

(* What a decimal says, in hundredths: every digit by its place. *)
Hundredths(s) ==
    LET body  == Unsigned(s)
        point == IF \E i \in DOMAIN body : body[i] = "."
                 THEN CHOOSE i \in DOMAIN body : body[i] = "." ELSE Len(body) + 1
        place(i) == IF i < point THEN point - i + 1 ELSE point + 2 - i
        size  == SumFunction([i \in DOMAIN body \ {point} |-> Digit[body[i]] * TenTo[place(i)]])
    IN  IF s = body THEN size ELSE -size

(* A decimal is read as the value its digits have, blanks around it or     *)
(* not, and refused exactly when its size is beyond the greatest word:     *)
(* nothing is rounded, cut off or wrapped.  The least word is refused too, *)
(* as its size is not a word (ParseMoney).                                 *)
DecimalsReadExactly ==
    from = "client" /\ IsDecimal(TrimSpace(text)) =>
        LET m == Hundredths(TrimSpace(text))
        IN  UnmarshalJSON(text) = IF m \in -MaxInt..MaxInt THEN Ok(m) ELSE Invalid

(* A text that is accepted without being a decimal has a sign too many     *)
(* (ParseInt takes one of its own in both parts); a second point, a third  *)
(* decimal, an exponent or a missing whole part is always refused          *)
(* (ParseMoney).                                                           *)
OnlyExtraSigns ==
    from = "client" /\ UnmarshalJSON(text).ok =>
        LET s == TrimSpace(text)
        IN  IsDecimal(s) \/ \E i \in DOMAIN Unsigned(s) : Unsigned(s)[i] \in Signs

(* An amount the server wrote, to a client or into the payload of an       *)
(* event, is read back as the same amount (String, MarshalJSON,            *)
(* UnmarshalJSON).  The two methods agree even on the least word, whose    *)
(* negation wraps: its text has two minus signs and one more before the    *)
(* cents, which json.Marshal, outside the model, refuses as no number.     *)
RoundTrip == from = "server" => UnmarshalJSON(text) = Ok(amount)

(* A percentage fee is the nearest minor unit, half a unit up, never more  *)
(* than the amount, and does not fall when the amount rises, as long as    *)
(* amount times basis points fits the word (VariableFeePolicy).            *)
FeeRoundsHalfUp ==
    from = "server" /\ amount >= 0 =>
        \A points \in 0..Unit : amount * points + Unit \div 2 <= MaxInt =>
            LET fee == VariableFee(amount, points)
            IN  /\ Unit * (2 * fee - 1) <= 2 * amount * points
                /\ 2 * amount * points < Unit * (2 * fee + 1)
                /\ fee \in 0..amount
                /\ amount > 0 => VariableFee(amount - 1, points) <= fee
=============================================================================
