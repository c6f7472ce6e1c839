-------------------------- MODULE QDAFFRecentFiles --------------------------
(***************************************************************************)
(* The recently opened files: the list in the settings, which outlives the *)
(* window, and the entries of the menu, which are rebuilt from it one by   *)
(* one.                                                                    *)
(***************************************************************************)
EXTENDS Integers, Sequences, SequencesExt

CONSTANTS Paths, MaxRecent   \* MaxRecent: the code's 9

ASSUME RecentAssumption == MaxRecent \in Nat \ {0}

VARIABLES
  recent,  \* RecentFiles in the settings, the last opened first
  menu     \* the entries of the menu below "Clear" and the divider

recentVars == <<recent, menu>>

Fewer(x, y) == IF x <= y THEN x ELSE y

\* For each of the files an entry is removed in front and one added at the end.
\* (A slip: the entry is only added.)
UpdateKeepsEntries(files, entries) ==
  IF files = <<>> THEN <<>>
  ELSE entries \o SubSeq(files, 1, Fewer(MaxRecent, Len(files)))
UpdateRecentFilesActions(files, entries) ==
  IF files = <<>> THEN <<>>
  ELSE LET n == Fewer(MaxRecent, Len(files))
       IN  SubSeq(entries, n + 1, Len(entries)) \o SubSeq(files, 1, n)

\* The files of the list but one, as far as the list is read.
Others(path) ==
  LET n == Fewer(MaxRecent - 1, Len(recent))
      others[i \in 0 .. n] ==
        IF i = 0 THEN <<>>
        ELSE IF recent[i] = path THEN others[i - 1] ELSE Append(others[i - 1], recent[i])
  IN  others[n]

\* OpenDAFFFile when the file was read.
RememberFile(path) ==
  /\ recent' = <<path>> \o Others(path)
  /\ menu' = UpdateRecentFilesActions(recent', menu)

on_actionRecent_Clear ==
  /\ recent' = <<>>
  /\ menu' = UpdateRecentFilesActions(<<>>, menu)

\* A new window has an empty menu and the settings of the last one.
Reopen == menu' = UpdateRecentFilesActions(recent, <<>>) /\ UNCHANGED recent

RecentInit == recent = <<>> /\ menu = <<>>
RecentNext == (\E p \in Paths : RememberFile(p)) \/ on_actionRecent_Clear \/ Reopen
RecentSpec == RecentInit /\ [][RecentNext]_recentVars

-----------------------------------------------------------------------------
\* Whatever was opened and reopened, the last entries of the menu are the recent
\* files in their order, none of them twice and the last opened file first; what
\* else the menu holds are entries left from a longer list, and there are never
\* more entries than number keys.
RecentFilesAreOffered ==
  /\ IsSuffix(recent, menu)
  /\ IsInjective(recent)
  /\ Len(menu) <= MaxRecent
=============================================================================
