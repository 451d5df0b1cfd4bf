------------------------------ MODULE FilePath ------------------------------
(***************************************************************************)
(* base::FilePath (base/files/file_path.cc): operators on pathnames.       *)
(*                                                                         *)
(* A pathname is a sequence of characters; only the ones that mean         *)
(* something in a path are told apart.  Positions are the code's: the      *)
(* first character is at 0, and npos is the largest size_t, to which the   *)
(* code adds 1 and 2.  What a build decides is a parameter.                *)
(***************************************************************************)
EXTENDS Naturals, Sequences, SequencesExt, FiniteSetsExt

CONSTANTS
  SizeValues,           \* how many values a size_t has
  Lower                 \* tolower, of the letters that can name a drive

(* FILE_PATH_USES_DRIVE_LETTERS, and kSeparators, the canonical one first. *)
Posix == [drives |-> FALSE, separators |-> <<"/">>]
Windows == [drives |-> TRUE, separators |-> <<"\\", "/">>]
Builds == {Posix, Windows}

Nul == "nul"
Dot == "."
npos == SizeValues - 1
Plus(position, n) == (position + n) % SizeValues

At(path, position) == path[position + 1]
Resized(path, length) == SubSeq(path, 1, length)
From(path, position) == SubSeq(path, position + 1, Len(path))

IsSeparator(build, character) == character \in ToSet(build.separators)

(* find_last_of and rfind *)
LastPosition(path, characters) ==
  LET found == {i \in DOMAIN path : path[i] \in characters}
  IN  IF found = {} THEN npos ELSE Max(found) - 1

FindLastSeparator(build, path) == LastPosition(path, ToSet(build.separators))
FindLastDot(path) == LastPosition(path, {Dot})

-----------------------------------------------------------------------------
FindDriveLetter(build, path) ==
  IF build.drives /\ Len(path) >= 2 /\ At(path, 0) \in DOMAIN Lower /\ At(path, 1) = ":"
    THEN 1 ELSE npos

IsPathAbsolute(build, path) ==
  LET letter == FindDriveLetter(build, path)
      SeparatorAt(position) == Len(path) > position /\ IsSeparator(build, At(path, position))
  IN  IF letter # npos THEN SeparatorAt(letter + 1)
      ELSE SeparatorAt(0) /\ (build.drives => SeparatorAt(1))

(* The constructor; every path_ is free of NULs. *)
WithoutNuls(text) ==
  LET nuls == {i \in DOMAIN text : text[i] = Nul}
  IN  IF nuls = {} THEN text ELSE SubSeq(text, 1, Min(nuls) - 1)

(* Mutant: "//" is taken for "/". *)
StrippedToOne(build, path, pos, last_stripped) ==
  LET end == Max({i \in 0 .. pos : i <= 1 \/ ~IsSeparator(build, At(path, i - 1))})
  IN  Resized(path, end)

(* The loop, from pos on; path_ is the first length characters of path. *)
Stripped(build, path, pos, last_stripped) ==
  LET start == Plus(FindDriveLetter(build, path), 2)
      from[at \in [pos : 0 .. Len(path), length : 0 .. Len(path), last : 0 .. npos]] ==
        IF at.pos <= start \/ ~IsSeparator(build, At(path, at.pos - 1))
          THEN Resized(path, at.length)
        ELSE IF \/ at.pos # start + 1
                \/ at.last = start + 2
                \/ ~IsSeparator(build, At(path, start - 1))
          THEN from[[pos |-> at.pos - 1, length |-> at.pos - 1, last |-> at.pos]]
          ELSE from[[at EXCEPT !.pos = @ - 1]]
  IN  from[[pos |-> pos, length |-> Len(path), last |-> last_stripped]]

StripTrailingSeparators(build, path) == Stripped(build, path, Len(path), npos)

DirName(build, path) ==
  LET stripped == StripTrailingSeparators(build, path)
      letter == FindDriveLetter(build, stripped)
      last_separator == FindLastSeparator(build, stripped)
      length ==
        IF last_separator = npos THEN Plus(letter, 1)
        ELSE IF last_separator = Plus(letter, 1) THEN Plus(letter, 2)
        ELSE IF /\ last_separator = Plus(letter, 2)
                /\ IsSeparator(build, At(stripped, Plus(letter, 1)))
          THEN Plus(letter, 3)
        ELSE last_separator
      dir == StripTrailingSeparators(build, Resized(stripped, length))
  IN  IF dir = <<>> THEN <<Dot>> ELSE dir

BaseName(build, path) ==
  LET stripped == StripTrailingSeparators(build, path)
      letter == FindDriveLetter(build, stripped)
      rest == IF letter # npos THEN From(stripped, letter + 1) ELSE stripped
      last_separator == FindLastSeparator(build, rest)
  IN  IF last_separator # npos /\ last_separator < Len(rest) - 1
        THEN From(rest, last_separator + 1) ELSE rest

FinalExtension(build, path) ==
  LET base == BaseName(build, path)
      dot == FindLastDot(base)
  IN  IF base \in {<<Dot>>, <<Dot, Dot>>} \/ dot = npos THEN <<>> ELSE From(base, dot)

RemoveFinalExtension(build, path) ==
  IF FinalExtension(build, path) = <<>> THEN path
  ELSE Resized(path, Len(path) - Len(FinalExtension(build, path)))

(* path.Append(component), where the DCHECK passes: ~IsPathAbsolute. *)
AppendComponent(build, path, component) ==
  LET appended == WithoutNuls(component)
      stripped == StripTrailingSeparators(build, path)
      separated ==
        /\ appended # <<>> /\ stripped # <<>>
        /\ ~IsSeparator(build, At(stripped, Len(stripped) - 1))
        /\ Plus(FindDriveLetter(build, stripped), 1) # Len(stripped)
  IN  IF path = <<Dot>> THEN appended
      ELSE stripped \o (IF separated THEN <<build.separators[1]>> ELSE <<>>) \o appended

(* operator== of Windows: the case of the drive letter does not matter. *)
EqualDriveLetterCaseInsensitive(build, a, b) ==
  IF npos \in {FindDriveLetter(build, a), FindDriveLetter(build, b)} THEN a = b
  ELSE Lower[At(a, 0)] = Lower[At(b, 0)] /\ From(a, 2) = From(b, 2)

-----------------------------------------------------------------------------
(* What a path says: its drive, how many separators stand in front of the  *)
(* names, and the names, with the separators between them left out.        *)
Drive(build, path) == IF FindDriveLetter(build, path) = npos THEN <<>> ELSE Resized(path, 2)
Rest(build, path) == From(path, Len(Drive(build, path)))

SlashesIn(build, rest) ==
  Max({i \in 0 .. Len(rest) : \A j \in 1 .. i : IsSeparator(build, rest[j])})

Slashes(build, path) == SlashesIn(build, Rest(build, path))

(* The names in the first n characters, one character after the other. *)
NamesIn(build, rest) ==
  LET upTo[n \in 0 .. Len(rest)] ==
        IF n = 0 THEN <<>>
        ELSE IF IsSeparator(build, rest[n]) THEN upTo[n - 1]
        ELSE IF n = 1 \/ IsSeparator(build, rest[n - 1])
          THEN Append(upTo[n - 1], <<rest[n]>>)
        ELSE [upTo[n - 1] EXCEPT ![Len(upTo[n - 1])] = Append(@, rest[n])]
  IN  upTo[Len(rest)]

Names(build, path) == NamesIn(build, Rest(build, path))

Current == <<Dot>>

(* Two leading separators are a root of their own; more than two are one   *)
(* separator, but not yet to Append and DirName.                           *)
SameRoot(build, path, other) ==
  /\ Drive(build, other) = Drive(build, path)
  /\ IF Slashes(build, path) <= 2 THEN Slashes(build, other) = Slashes(build, path)
     ELSE Slashes(build, other) > 0

(* DirName leaves the last name out, and BaseName is that name; a root is  *)
(* its own directory; a lone name is in the current directory.             *)
TakenApart(build, path) ==
  LET names == Names(build, path)
      rooted == Drive(build, path) # <<>> \/ Slashes(build, path) > 0
  IN  IF names = <<>>
        THEN /\ DirName(build, path) =
                  (IF rooted THEN StripTrailingSeparators(build, path) ELSE Current)
             /\ BaseName(build, path) = Rest(build, StripTrailingSeparators(build, path))
        ELSE /\ IF rooted \/ Len(names) > 1
                  THEN /\ SameRoot(build, path, DirName(build, path))
                       /\ Names(build, DirName(build, path)) = Front(names)
                  ELSE DirName(build, path) = Current
             /\ BaseName(build, path) = names[Len(names)]

(* Append puts the names of a relative component behind the path's own. *)
PutTogether(build, path, component) ==
  LET appended == WithoutNuls(component)
      relative == Drive(build, appended) = <<>> /\ Slashes(build, appended) = 0
      result == AppendComponent(build, path, component)
  IN  relative =>
        IF path = Current THEN result = appended
        ELSE /\ SameRoot(build, path, result)
             /\ Names(build, result) = Names(build, path) \o Names(build, appended)

(* FinalExtension and RemoveFinalExtension cut a path in two, at the last  *)
(* dot of its last name.  (They do not when separators follow the name.)   *)
CutAtExtension(build, path) ==
  LET extension == FinalExtension(build, path)
      isDots == BaseName(build, path) \in {Current, <<Dot, Dot>>}
  IN  StripTrailingSeparators(build, path) = path =>
        /\ RemoveFinalExtension(build, path) \o extension = path
        /\ IF extension = <<>> THEN isDots \/ Dot \notin ToSet(BaseName(build, path))
           ELSE /\ ~isDots /\ Head(extension) = Dot
                /\ ToSet(Tail(extension)) \cap (ToSet(build.separators) \cup {Dot}) = {}

(* Paths that differ in the case of the drive letter only are equal, and   *)
(* so are their parts.                                                     *)
SameButForCase(build, path, other) ==
  /\ EqualDriveLetterCaseInsensitive(build, path, other)
  /\ EqualDriveLetterCaseInsensitive(build, DirName(build, path), DirName(build, other))
  /\ BaseName(build, path) = BaseName(build, other)
=============================================================================
