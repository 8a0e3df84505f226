------------------------------ MODULE DciIcon -------------------------------
(* DDciIcon: a DCI file holds, per size, images for a mode and a theme type,  *)
(* each in several pixel ratios.  The icon loads what is well named, and      *)
(* matches an image for a size, a type and a mode.                            *)
(*                                                                            *)
(* A file is the sequence, by size, of its directories [size, images]; an     *)
(* image is [mode, type, scales], its scales a sequence of [ratio, padding,   *)
(* palette].  A size or ratio whose name is no number is Bad.                 *)
EXTENDS Integers, Sequences, FiniteSetsExt

Bad == 0
Modes == {"normal", "disabled", "hover", "pressed"}
LookTypes == {"light", "dark"}
NoEntry == [size |-> 0]

-----------------------------------------------------------------------------
(* loadIcon: an image whose name is not a mode and a type is left out, as are *)
(* the scales that are not numbers.                                           *)
ToMode(image) == image.mode \in Modes
ToTheme(image) == image.type \in LookTypes

Scales(image) == SelectSeq(image.scales, LAMBDA s : s.ratio # Bad)

MaxPadding(scales) == Max({0} \cup {scales[i].padding : i \in DOMAIN scales})

LoadIcon(size, image) ==
    [size |-> size, mode |-> image.mode, type |-> image.type,
     scales |-> Scales(image), padding |-> MaxPadding(Scales(image))]

(* An entry is null without a scale, a size is left out without an entry.     *)
Entries(dir) ==
    {e \in {LoadIcon(dir.size, i) : i \in {i \in dir.images : ToMode(i) /\ ToTheme(i)}} :
        e.scales # <<>>}

(* A list is indexed by the places of its nodes in the file.                  *)
LoadIconList(file) ==
    [n \in {n \in DOMAIN file : file[n].size # Bad /\ Entries(file[n]) # {}} |->
        [size |-> file[n].size, entries |-> Entries(file[n]),
         padding |-> Max({0} \cup {e.padding : e \in Entries(file[n])})]]

IsEmpty(nodes) == DOMAIN nodes = {}

(* What std::lower_bound needs, and the library that reads DCI files gives:   *)
(* the directories come by size.                                              *)
InOrder(file) ==
    /\ Len(file) \in Nat /\ DOMAIN file = 1..Len(file)
    /\ \A n \in DOMAIN file : file[n].size \in Nat
    /\ \A m, n \in DOMAIN file :
          m < n /\ Bad \notin {file[m].size, file[n].size} => file[m].size < file[n].size

-----------------------------------------------------------------------------
Reaches(node, size, padded) ==
    (IF padded THEN node.size + node.padding ELSE node.size) >= size

(* 0 stands for the -1 of a list where none is large enough.                  *)
FindIconsByLowerBoundSize(nodes, size, padded) ==
    LET enough == {n \in DOMAIN nodes : Reaches(nodes[n], size, padded)}
    IN IF enough = {} THEN 0 ELSE Min(enough)

(* tryMatchIcon: the weight of an entry, and the one of the greatest.         *)
Weight(e, type, mode, fallback) ==
    IF e.type # type THEN 0
    ELSE IF e.mode = mode THEN 3 ELSE IF fallback /\ e.mode = "normal" THEN 1 ELSE 0

TryMatchIcon(nodes, size, type, mode, padded, fallback) ==
    IF IsEmpty(nodes) THEN NoEntry
    ELSE LET neighbor == FindIconsByLowerBoundSize(nodes, size, padded)
             n == IF neighbor = 0 THEN Max(DOMAIN nodes) ELSE neighbor
             W(e) == Weight(e, type, mode, fallback)
             best == {e \in nodes[n].entries :
                        W(e) > 0 /\ \A o \in nodes[n].entries : W(e) >= W(o)}
         IN IF best = {} THEN NoEntry ELSE CHOOSE e \in best : TRUE

(* findScalableLayer: the first scale above the ratio, else the greatest.     *)
FindScalableLayer(scales, ratio) ==
    LET above == {i \in DOMAIN scales : scales[i].ratio > ratio}
        most == {i \in DOMAIN scales : \A j \in DOMAIN scales : scales[j].ratio <= scales[i].ratio}
    IN scales[IF above # {} THEN Min(above) ELSE Min(most)]

HasPalette(entry) == entry # NoEntry /\ entry.scales[1].palette

(* image() and pixmap(): what is seen of the icon for a result of a match.    *)
Image(entry, ratio) ==
    IF entry = NoEntry THEN NoEntry
    ELSE [size |-> entry.size, mode |-> entry.mode, type |-> entry.type,
          scale |-> FindScalableLayer(entry.scales, ratio).ratio,
          tinted |-> HasPalette(entry)]

-----------------------------------------------------------------------------
(* What the documentation of the format asks for, said without the search:    *)
(* the image is of the smallest size that is not too small, or of the largest *)
(* one, of the type, and of the mode or else normal.                          *)
RightMatch(file, image, size, type, mode) ==
    LET usable == UNION {Entries(file[n]) : n \in {n \in DOMAIN file : file[n].size # Bad}}
        sizes == {e.size : e \in usable}
        enough == {s \in sizes : s >= size}
        wanted == IF enough # {} THEN Min(enough) ELSE Max(sizes)
        Fits(m) == {e \in usable : e.size = wanted /\ e.type = type /\ e.mode = m}
        fitting == IF Fits(mode) # {} THEN Fits(mode) ELSE Fits("normal")
    IN image = IF sizes = {} \/ fitting = {} THEN NoEntry
               ELSE Image(CHOOSE e \in fitting : TRUE, 1)

=============================================================================
