---------------------------- MODULE ConsoleCalls ----------------------------
(***************************************************************************)
(* The console system calls (userprog/ksyscall.h and the copying between   *)
(* user and kernel memory in userprog/exception.cc): ReadNum, PrintNum,    *)
(* ReadString, PrintString.  GetChar takes the next typed character and    *)
(* PutChar adds to the display, as module Console shows.                   *)
(*                                                                         *)
(* Characters are their codes; an int is Width bits wide.  The program     *)
(* modelled reads something and prints it back.                            *)
(***************************************************************************)
EXTENDS Integers, Sequences

CONSTANTS
    Width,      \* bits of an int (32 in the code)
    MemorySize, \* size of the program's memory
    Limit,      \* longest string that PrintString copies (255 in the code)
    Lines       \* what may be typed: sequences that end with a blank

EOF == -1
NUL == 0
NewLine == 10
Blank == {32, NewLine}
Minus == 45
Zero == 48
EndOfLine == {1, NewLine}
IsDigit(c) == c \in Zero..Zero + 9

MaxInt == 2^(Width - 1) - 1
MinInt == -2^(Width - 1)
Wrap(x) == ((x - MinInt) % 2^Width) + MinInt

\* Division and remainder of C, which round towards zero.
Div(a, b) == IF a < 0 THEN -((-a) \div b) ELSE a \div b
Rem(a, b) == a - Div(a, b) * b

VARIABLES
    typed,     \* the whole input
    keyboard,  \* what GetChar has not returned yet
    display,   \* what PutChar has printed
    memory,    \* the program's memory
    before,    \* the memory at the beginning of ReadString
    call,      \* the call in progress and its local variables
    result     \* register 2

vars == <<typed, keyboard, display, memory, before, call, result>>

\* Results fit the int of the build, and memory keeps its size.
TypeOK ==
    /\ result \in MinInt..MaxInt
    /\ memory \in [0..MemorySize - 1 -> Int]
    /\ call.at \in {"skip", "sign", "digits", "number", "string", "copied",
                    "done"}

-----------------------------------------------------------------------------
(* Pure parts                                                              *)

\* The loop of SysPrintNum that fills arr, last digit first.
Digits[n \in Int] ==
    IF n = 0 THEN <<>> ELSE Append(Digits[Div(n, 10)], Zero + Rem(n, 10))

SysPrintNum(n) ==
    IF n = 0 THEN <<Zero>>
    ELSE (IF n < 0 THEN <<Minus>> ELSE <<>>)
            \o Digits[IF n < 0 THEN Wrap(-n) ELSE n]

\* User2System: copy up to the first NUL, at most limit characters.  The
\* kernel's buffer is one longer and ends with NUL.
User2System(addr, limit) ==
    LET nuls == {i \in 0..limit - 1 : memory[addr + i] = NUL}
        len == IF nuls = {} THEN limit
               ELSE CHOOSE i \in nuls : \A j \in nuls : i <= j IN
    [i \in 1..len |-> memory[addr + i - 1]]

\* Mutant of System2User: it stops before the NUL.
System2UserShort(addr, len, buffer) ==
    [a \in DOMAIN memory |->
        IF a - addr \in 0..len - 1 /\ \A j \in 0..a - addr : buffer[j + 1] # NUL
        THEN buffer[a - addr + 1] ELSE memory[a]]

\* System2User: copy up to and including the first NUL, at most len.
System2User(addr, len, buffer) ==
    [a \in DOMAIN memory |->
        IF a - addr \in 0..len - 1
           /\ \A j \in 0..a - addr - 1 : buffer[j + 1] # NUL
        THEN buffer[a - addr + 1] ELSE memory[a]]

-----------------------------------------------------------------------------
Idle == [at |-> "skip", num |-> 0, isSign |-> FALSE, isInteger |-> TRUE]

Strings == {[at |-> "string", addr |-> a, length |-> n, buffer |-> <<>>] :
              a \in 0..MemorySize - 1, n \in 0..MemorySize}

\* The memory is full of one printable character, so that a missing NUL
\* shows.
Init ==
    /\ typed \in Lines
    /\ keyboard = typed
    /\ display = <<>>
    /\ memory = [a \in 0..MemorySize - 1 |-> IF a = MemorySize - 1 THEN NUL
                                             ELSE 35]
    /\ before = memory
    /\ call \in {Idle} \cup {s \in Strings : s.addr + s.length < MemorySize}
    /\ result = 0

Return(n) ==
    /\ result' = n
    /\ call' = [call EXCEPT !.at = "number"]

\* num = num * 10 + c - '0'.
NextDigit(c) ==
    call' = [call EXCEPT !.at = "digits",
                         !.num = Wrap(@ * 10 + c - Zero),
                         !.isInteger = @ /\ IsDigit(c)]

\* SysReadNum, up to each next GetChar.
SkipBlanks(c) ==
    /\ call.at = "skip"
    /\ \/ c \in Blank /\ UNCHANGED <<call, result>>
       \/ c = Minus /\ call' = [call EXCEPT !.at = "sign", !.isSign = TRUE]
                    /\ UNCHANGED result
       \/ c \notin Blank \cup {Minus} /\ NextDigit(c) /\ UNCHANGED result

AfterSign(c) ==
    /\ call.at = "sign"
    /\ \/ c \in Blank /\ Return(0)
       \/ c \notin Blank /\ NextDigit(c) /\ UNCHANGED result

ReadDigits(c) ==
    /\ call.at = "digits"
    /\ \/ c \in Blank /\ Return(IF ~call.isInteger THEN 0
                                ELSE IF call.isSign THEN Wrap(-call.num)
                                ELSE call.num)
       \/ c \notin Blank /\ NextDigit(c) /\ UNCHANGED result

ReadNum ==
    /\ keyboard # <<>>
    /\ keyboard' = Tail(keyboard)
    /\ \/ SkipBlanks(Head(keyboard)) \/ AfterSign(Head(keyboard))
       \/ ReadDigits(Head(keyboard))
    /\ UNCHANGED <<typed, display, memory, before>>

\* SC_ReadString.  SysReadString fills a buffer of zeros until it is full
\* or the line ends; EOF is skipped.
FillBuffer ==
    /\ call.at = "string" /\ Len(call.buffer) < call.length
    /\ keyboard # <<>> /\ Head(keyboard) \notin EndOfLine
    /\ keyboard' = Tail(keyboard)
    /\ call' = IF Head(keyboard) = EOF THEN call
               ELSE [call EXCEPT !.buffer = Append(@, Head(keyboard))]
    /\ UNCHANGED <<typed, display, memory, before, result>>

EndString ==
    /\ call.at = "string"
    /\ \/ Len(call.buffer) = call.length /\ UNCHANGED keyboard
       \/ /\ Len(call.buffer) < call.length
          /\ keyboard # <<>> /\ Head(keyboard) \in EndOfLine
          /\ keyboard' = Tail(keyboard)
    /\ memory' = System2User(call.addr, call.length,
                             [i \in 1..call.length |->
                                IF i <= Len(call.buffer) THEN call.buffer[i]
                                ELSE NUL])
    /\ call' = [call EXCEPT !.at = "copied"]
    /\ UNCHANGED <<typed, display, before, result>>

\* The program prints what it got.
PrintNum ==
    /\ call.at = "number"
    /\ display' = SysPrintNum(result)
    /\ call' = [call EXCEPT !.at = "done"]
    /\ UNCHANGED <<typed, keyboard, memory, before, result>>

PrintString ==
    /\ call.at = "copied"
    /\ display' = User2System(call.addr,
                              IF MemorySize - call.addr < Limit
                              THEN MemorySize - call.addr ELSE Limit)
    /\ call' = [call EXCEPT !.at = "done"]
    /\ UNCHANGED <<typed, keyboard, memory, before, result>>

Next == ReadNum \/ FillBuffer \/ EndString \/ PrintNum \/ PrintString

Spec == Init /\ [][Next]_vars

-----------------------------------------------------------------------------
(* Properties                                                              *)

Consumed == SubSeq(typed, 1, Len(typed) - Len(keyboard))

\* The first word of a sequence of characters, without the blanks around it.
Word(s) ==
    LET black == {i \in DOMAIN s : s[i] \notin Blank}
        from == CHOOSE i \in black : \A j \in black : i <= j
        to == CHOOSE i \in from..Len(s) :
                 /\ \A j \in from..i : s[j] \notin Blank
                 /\ i = Len(s) \/ s[i + 1] \in Blank
    IN IF black = {} THEN <<>> ELSE SubSeq(s, from, to)

IsNumber(w) ==
    \/ w # <<>> /\ \A i \in DOMAIN w : IsDigit(w[i])
    \/ Len(w) > 1 /\ w[1] = Minus /\ \A i \in 2..Len(w) : IsDigit(w[i])

\* What a word of digits stands for, digit by digit from its last.
Value[w \in Seq(Int)] ==
    IF w = <<>> THEN 0
    ELSE 10 * Value[SubSeq(w, 1, Len(w) - 1)] + w[Len(w)] - Zero

NumberOf(w) ==
    IF ~IsNumber(w) THEN 0
    ELSE IF w[1] = Minus THEN -Value[Tail(w)] ELSE Value[w]

\* ReadNum reads one word and the blank after it and returns the number the
\* word stands for (modulo the width of int), or 0 if it is no number.
ReadsOneWord ==
    call.at = "number" =>
        /\ result = Wrap(NumberOf(Word(Consumed)))
        /\ Consumed[Len(Consumed)] \in Blank

IsCanonical(w) ==
    /\ IsNumber(w) /\ (w = <<Zero>> \/ Head(w) # Zero)
    /\ Head(w) = Minus => w[2] # Zero
    /\ NumberOf(w) \in MinInt + 1..MaxInt

\* PrintNum undoes ReadNum: a number in range that is written without
\* leading zeros is printed as it was typed.
PrintsWhatWasRead ==
    call.at = "done" /\ "num" \in DOMAIN call /\ IsCanonical(Word(Consumed))
        => display = Word(Consumed)

\* The characters of the line that ReadString may return.
Line ==
    LET ends == {i \in DOMAIN typed : typed[i] \in EndOfLine}
        end == CHOOSE i \in ends : \A j \in ends : i <= j
    IN SelectSeq(SubSeq(typed, 1, end - 1), LAMBDA c : c # EOF)

\* ReadString puts the line, as far as it fits, at the start of the user's
\* buffer, ends it with NUL if there is room, and changes nothing else: in
\* particular nothing past the given length.
StringIsTheLine ==
    call.at = "copied" =>
        LET n == IF Len(Line) < call.length THEN Len(Line) ELSE call.length IN
        \A a \in DOMAIN memory :
            memory[a] = IF a - call.addr \in 0..n - 1
                        THEN Line[a - call.addr + 1]
                        ELSE IF a = call.addr + n /\ n < call.length THEN NUL
                        ELSE before[a]

\* A line that ReadString ended with NUL is printed back by PrintString, up
\* to the length that PrintString copies.
EchoesLine ==
    call.at = "done" /\ "buffer" \in DOMAIN call =>
        (Len(Line) < call.length =>
            display = SubSeq(Line, 1, IF Len(Line) < Limit THEN Len(Line)
                                      ELSE Limit))

\* What is typed is what the program gets, and what it gets is what it prints:
\* the number and string calls in both directions.
InputIsKept ==
    TypeOK /\ ReadsOneWord /\ PrintsWhatWasRead /\ StringIsTheLine /\ EchoesLine
=============================================================================
