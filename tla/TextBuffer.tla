----------------------------- MODULE TextBuffer -----------------------------
(***************************************************************************)
(* og3::TextBufferBase: text added to a buffer of fixed size, and split    *)
(* into lines at its spaces, in place.  A character is a letter "a", a     *)
(* space or a newline.                                                     *)
(***************************************************************************)
EXTENDS Integers, Sequences, SequencesExt

CONSTANTS BufferLen,       \* m_buffer_len
          Pieces,          \* the texts that are added
          LineLens,        \* the line lengths asked for
          MaxLen           \* bound: m_len, which also counts what did not fit

Space == "space"
Newline == "newline"
Chars == {"a", Space, Newline}

ASSUME TextAssumption ==
  /\ BufferLen \in Nat \ {0}
  /\ Pieces \subseteq Seq(Chars) /\ LineLens \subseteq Nat

VARIABLES text,            \* m_buffer up to its NUL
          len,             \* m_len
          cursor           \* split()'s i, start and last, from 0, and its line_len; none
                           \*   while it does not run

textVars == <<text, len, cursor>>

NoCursor == [lineLen |-> 0]

TextInit == text = <<>> /\ len = 0 /\ cursor = NoCursor

ClearText ==
  /\ cursor = NoCursor
  /\ text' = <<>> /\ len' = 0 /\ UNCHANGED cursor

AtMost(s, n) == IF Len(s) > n THEN SubSeq(s, 1, n) ELSE s

(* addv(): what does not fit is cut off, but counted in m_len; nothing is  *)
(* added to a buffer that counts as full.                                  *)
AddText(piece) ==
  /\ cursor = NoCursor /\ len + Len(piece) <= MaxLen
  /\ IF len < BufferLen
     THEN text' = AtMost(text \o piece, BufferLen - 1) /\ len' = len + Len(piece)
     ELSE UNCHANGED <<text, len>>
  /\ UNCHANGED cursor
-----------------------------------------------------------------------------
(* split() of a text that ends in a letter.  (It reads past the NUL of an  *)
(* empty text, of one that ends in a newline, and of one whose last space  *)
(* is where it breaks a line.)  It looks at no line's first character.     *)
StartSplit(lineLen) ==
  /\ cursor = NoCursor /\ text # <<>> /\ Last(text) = "a"
  /\ lineLen >= 4
  /\ cursor' = [lineLen |-> lineLen, i |-> 1, start |-> 0, last |-> 0]
  /\ UNCHANGED <<text, len>>

NewLine(at) == [cursor EXCEPT !.start = at, !.i = at + 1, !.last = 0]

(* Fault: the character that makes the line too long is not counted.       *)
TooLongByTwo == cursor.i - cursor.start > cursor.lineLen + 1

TooLong == cursor.i - cursor.start > cursor.lineLen

(* The line is too long and had a space.                                   *)
BreakLine ==
  /\ cursor # NoCursor /\ TooLong /\ cursor.last > 0
  /\ text' = [text EXCEPT ![cursor.last + 1] = Newline]
  /\ cursor' = NewLine(cursor.last + 1)
  /\ UNCHANGED len

EndSplit ==
  /\ cursor # NoCursor /\ ~(TooLong /\ cursor.last > 0) /\ cursor.i = Len(text)
  /\ cursor' = NoCursor /\ UNCHANGED <<text, len>>

NextChar ==
  /\ cursor # NoCursor /\ ~(TooLong /\ cursor.last > 0) /\ cursor.i < Len(text)
  /\ LET c == text[cursor.i + 1]
     IN  cursor' = CASE c = Newline -> NewLine(cursor.i + 1)
                     [] c = Space -> [cursor EXCEPT !.last = cursor.i, !.i = @ + 1]
                     [] c = "a" -> [cursor EXCEPT !.i = @ + 1]
  /\ UNCHANGED <<text, len>>

TextNext ==
  \/ \E piece \in Pieces : AddText(piece)
  \/ \E lineLen \in LineLens : StartSplit(lineLen)
  \/ BreakLine \/ EndSplit \/ NextChar \/ ClearText

TextSpec == TextInit /\ [][TextNext]_textVars
-----------------------------------------------------------------------------
(* The line that starts at `start' is no longer than asked, or has no      *)
(* space to break it at.                                                   *)
LineFits(s, start, lineLen) ==
  LET ends == { e \in start + 1 .. Len(s) : s[e] = Newline } \cup {Len(s) + 1}
      end == CHOOSE e \in ends : \A f \in ends : e <= f
  IN  end - 1 - start <= lineLen \/ \A k \in start + 2 .. end - 1 : s[k] # Space

(* split() changes nothing but spaces into newlines, and every line that   *)
(* it leaves behind fits, wherever the lines before it were broken.        *)
SplitsAtSpaces ==
  [][ cursor # NoCursor =>
        /\ \A k \in DOMAIN text : text'[k] # text[k] => text[k] = Space /\ text'[k] = Newline
        /\ \/ cursor' # NoCursor /\ cursor'.start = cursor.start
           \/ LineFits(text', cursor.start, cursor.lineLen) ]_textVars
=============================================================================
