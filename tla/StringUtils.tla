---------------------------- MODULE StringUtils ----------------------------
(***************************************************************************)
(* The path functions of StringUtils.  A path is a sequence of tokens: the   *)
(* separators "/" and "\\", the dot, and runs of other characters.           *)
(***************************************************************************)
EXTENDS Integers, SequencesExt

\* find_last_of: the last position of a token of cs, or 0.
FindLastOf(s, cs) == SelectLastInSeq(s, LAMBDA c : c \in cs)

Separators == {"/", "\\"}

FilePath(path) ==
    LET pos == FindLastOf(path, Separators)
    IN IF pos # 0 THEN SubSeq(path, 1, pos - 1) ELSE <<".", "/">>

\* The whole path if there is no separator, or nothing behind the last one.
FileNameExt(path) ==
    LET pos == FindLastOf(path, Separators)
    IN IF pos < Len(path) THEN SubSeq(path, pos + 1, Len(path)) ELSE path

\* The position of the dot that ends the stem, or 0: one in front does not count.
StemDot(name) == LET pos == FindLastOf(name, {"."}) IN IF pos > 1 THEN pos ELSE 0

FileName(path) ==
    LET name == FileNameExt(path)
    IN IF StemDot(name) # 0 THEN SubSeq(name, 1, StemDot(name) - 1) ELSE name

\* The whole name if it has no extension.
Extension(path) ==
    LET name == FileNameExt(path)
    IN IF StemDot(name) # 0 THEN SubSeq(name, StemDot(name) + 1, Len(name)) ELSE name
=============================================================================
