-------------------------------- MODULE Console --------------------------------
(***************************************************************************)
(* loader/efi/console.cc with input.cc, the drawing of gfx.cc and itoa:    *)
(* messages are written into a buffer of cells, which is drawn when a      *)
(* message ends.  A full page waits for a key and is then cleared.         *)
(* As in the code, ctx.rows is the length of a line and ctx.columns the    *)
(* number of lines.  A cell is two bytes in buffer_size but only one apart *)
(* from the next in setcell, so that the attribute of a cell, always 0, is *)
(* stored as the character of the next.                                    *)
(***************************************************************************)
EXTENDS Integers, Sequences, SequencesExt

CONSTANTS
    rows, columns,  \* 120 and 70
    Messages,       \* what log is called with
    Numbers,        \* what efi_console_hex is called with
    Radix,          \* 16
    BuffSize,       \* elements of the buffer of efi_console_hex (17)
    Tab,            \* cells that a tabulator skips (4)
    LineMax,        \* bound: cells that a line of output has at most
    whoami          \* index of the core that logs

VARIABLES
    pc,
    message, at,               \* the message and the next character of it
    current_row, current_column,
    buffer,                    \* characters by cell
    screen,                    \* what is seen of each cell
    number,                    \* the number being written, or -1
    page,                      \* ghost: text of this page, by cell of its line
    touched,                   \* ghost: cells of this page that were written
    fresh,                     \* ghost: those the present message wrote
    turned                     \* ghost: a page was turned

cursor == <<current_row, current_column>>
ghosts == <<page, touched, fresh, turned>>
vars == <<pc, message, at, cursor, buffer, screen, number, ghosts>>

NUL == "nul"
Blank == "blank"
Cells == 0..(rows * columns - 1)  \* the cells that are drawn
DigitChar(d) == <<"0", "1", "2", "3", "4", "5", "6", "7",
                  "8", "9", "A", "B", "C", "D", "E", "F">>[d + 1]

\* How many numbers have at most k digits.
Power[k \in Nat] == IF k = 0 THEN 1 ELSE Radix * Power[k - 1]

\* A message ends at its first zero.  A line of output reaches at most to the
\* end of the buffer from any line of the page, and buff of efi_console_hex is
\* made for every number there is.
ASSUME ConsoleAssumption ==
    /\ rows \in Nat \ {0} /\ columns \in Nat \ {0} /\ Tab \in Nat
    /\ LineMax \in Nat /\ LineMax < rows * (columns + 1)
    /\ \A m \in Messages : m \in Seq(STRING) /\ \A k \in DOMAIN m : m[k] # NUL
    /\ Radix \in 2..16 /\ BuffSize \in Nat \ {0, 1}
    /\ Numbers \subseteq 0..(Power[BuffSize - 1] - 1)

\* Mutant: one byte for each cell.
OneByteEach == rows * columns
buffer_size == rows * columns * 2

\* memset stores AL, whatever that is.
Init ==
    /\ pc = "idle" /\ message = << >> /\ at = 1
    /\ current_row = 0 /\ current_column = 0
    /\ \E al \in {NUL, "junk"} : buffer = [k \in 0..(buffer_size - 1) |-> al]
    /\ screen = [k \in Cells |-> "unlit"]
    /\ number = -1
    /\ page = << >> /\ touched = {} /\ fresh = {} /\ turned = FALSE

-----------------------------------------------------------------------------
(* Numbers *)

\* The digits as the loop produces them, the least significant first; at
\* least one.  sign has no effect on an unsigned value, and pad is 0.
Digits[v \in Nat] == <<DigitChar(v % Radix)>> \o
                         (IF v \div Radix > 0 THEN Digits[v \div Radix] ELSE << >>)

\* Mutant: the digits are not reversed.
itoaLow(value) == Digits[value]
itoa(value) == Reverse(Digits[value])

\* Reference: the number that a sequence of digits stands for.
ValueOf(s) ==
    LET digit(c) == CHOOSE d \in 0..(Radix - 1) : DigitChar(d) = c
        prefix[k \in 0..Len(s)] == IF k = 0 THEN 0 ELSE Radix * prefix[k - 1] + digit(s[k])
    IN  prefix[Len(s)]

-----------------------------------------------------------------------------
(* efi_console_write *)

\* Cells that the longest line of a message takes, from the present place on.
Width(m) ==
    LET x[k \in 0..Len(m)] == IF k = 0 THEN current_row
                              ELSE IF m[k] = "\n" THEN 0
                              ELSE x[k - 1] + (IF m[k] = "\t" THEN Tab ELSE 1)
    IN  {x[k] : k \in 0..Len(m)}

Begin(m) ==
    /\ pc = "idle" /\ \A w \in Width(m) : w <= LineMax
    /\ pc' = "write" /\ message' = m /\ at' = 1 /\ fresh' = {}
    /\ UNCHANGED <<cursor, buffer, screen, page, touched, turned>>

Log(m) == Begin(m) /\ number' = -1

efi_console_hex(n) == Begin(itoa(n)) /\ number' = n

\* A character is to be written and the page is full, or is not.
PageFull == pc = "write" /\ at <= Len(message) /\ current_column >= columns
Next_char == pc = "write" /\ at <= Len(message) /\ current_column < columns

\* Mutant: only the position in the line is reset.
ColumnKept ==
    /\ PageFull
    /\ current_row' = 0 /\ pc' = "key"
    /\ UNCHANGED <<message, at, current_column, buffer, screen, number, ghosts>>

EndOfPage ==
    /\ PageFull
    /\ current_column' = 0 /\ current_row' = 0 /\ pc' = "key"
    /\ UNCHANGED <<message, at, buffer, screen, number, ghosts>>

\* Mutant: the page is not cleared.
NotFilled == buffer

\* Each blank overwrites the attribute of the one before; the last attribute
\* is behind the page.
efi_console_fill ==
    [k \in DOMAIN buffer |-> IF k \in Cells THEN Blank
                             ELSE IF k = rows * columns THEN NUL ELSE buffer[k]]

\* efi_input_wait_for_key returns when a key that is not zero was read; the
\* loop's other rounds change nothing.
efi_input_wait_for_key ==
    /\ pc = "key"
    /\ buffer' = efi_console_fill
    /\ page' = << >> /\ touched' = {} /\ fresh' = {} /\ turned' = TRUE
    /\ pc' = "write"
    /\ UNCHANGED <<message, at, cursor, screen, number>>

NewLine ==
    /\ Next_char /\ message[at] = "\n"
    /\ current_row' = 0 /\ current_column' = current_column + 1
    /\ at' = at + 1
    /\ UNCHANGED <<pc, message, buffer, screen, number, ghosts>>

Tabulate ==
    /\ Next_char /\ message[at] = "\t"
    /\ current_row' = current_row + Tab
    /\ at' = at + 1
    /\ UNCHANGED <<pc, message, current_column, buffer, screen, number, ghosts>>

Store(idx, character) ==
    [k \in DOMAIN buffer \cup {idx, idx + 1} |->
        CASE k = idx -> character [] k = idx + 1 -> NUL [] OTHER -> buffer[k]]

\* Mutant: a cell is two bytes here, and one byte when it is drawn.
SetCellWide(x, y, character) == Store((y * rows + x) * 2, character)
efi_console_setcell(x, y, character) == Store(y * rows + x, character)

\* page keeps the characters that are inside their line.
PutChar ==
    /\ Next_char /\ message[at] \notin {"\n", "\t"}
    /\ LET idx == current_column * rows + current_row IN
           /\ buffer' = efi_console_setcell(current_row, current_column, message[at])
           /\ touched' = touched \cup {idx}
           /\ fresh' = fresh \cup {idx}
           /\ page' = IF current_row >= rows THEN page
                      ELSE [k \in DOMAIN page \cup {idx} |->
                               IF k = idx THEN message[at] ELSE page[k]]
    /\ current_row' = current_row + 1 /\ at' = at + 1
    /\ UNCHANGED <<pc, message, current_column, screen, number, turned>>

\* A zero is not drawn: what was on the screen stays.
efi_gfx_char(shown, character) == IF character = NUL THEN shown ELSE character

\* Only the first core draws.
efi_console_draw ==
    /\ pc = "write" /\ at > Len(message)
    /\ screen' = IF whoami = 0 THEN [k \in Cells |-> efi_gfx_char(screen[k], buffer[k])]
                 ELSE screen
    /\ pc' = "idle" /\ message' = << >> /\ at' = 1 /\ fresh' = {} /\ number' = -1
    /\ UNCHANGED <<cursor, buffer, page, touched, turned>>

efi_console_write ==
    \/ EndOfPage \/ efi_input_wait_for_key
    \/ NewLine \/ Tabulate \/ PutChar \/ efi_console_draw

Next ==
    \/ \E m \in Messages : Log(m)
    \/ \E n \in Numbers : efi_console_hex(n)
    \/ efi_console_write

\* The writing goes on, and a key is pressed at some time.
Spec == Init /\ [][Next]_vars /\ WF_vars(efi_console_write)

-----------------------------------------------------------------------------
(* Properties *)

Chars == UNION {{m[k] : k \in DOMAIN m} : m \in Messages \cup {itoa(n) : n \in Numbers}}

\* Nothing is written behind the buffer, by however long a line.
TypeOK ==
    /\ pc \in {"idle", "write", "key"}
    /\ at \in 1..(Len(message) + 1)
    /\ current_row \in 0..LineMax /\ current_column \in Nat
    /\ buffer \in [0..(buffer_size - 1) -> Chars \cup {NUL, Blank, "junk"}]
    /\ number \in Numbers \cup {-1}

\* Everything written on this page inside its line is on the screen, but for
\* the message in progress: so also when the page is about to be turned.
TextShown ==
    whoami = 0 =>
        \A k \in DOMAIN page \ fresh : screen[k] = page[k]

\* After a page was turned, what is left of earlier pages is at most the cell
\* behind one that was written, where the attribute is.
NoGhosts ==
    turned /\ pc = "idle" /\ whoami = 0 =>
        \A k \in Cells \ touched : screen[k] = Blank \/ k - 1 \in touched

\* efi_console_hex writes the digits of its number, which fit into buff with
\* the zero that ends them, without a leading zero.
HexDigits ==
    number >= 0 =>
        /\ ValueOf(message) = number
        /\ Len(message) + 1 <= BuffSize
        /\ message[1] = "0" => Len(message) = 1

\* A call of log returns, also when pages are turned within it.
LogReturns == [](pc # "idle" => <>(pc = "idle"))
=============================================================================
