--------------------------- MODULE Images_proofs ----------------------------
(* Machine-checked proofs about images and icons.  The handler of images      *)
(* (ImageHandler), for any files, suffixes, plugins and libraries: what a     *)
(* process looked up before does not change the format of a file, an image    *)
(* kept is the file's, and files are rotated by what was asked for.  The      *)
(* filters of one pixel and the orientations (ImageFilters), for every pixel, *)
(* argument, width and height.  The search for an image in a DCI file         *)
(* (DciIcon), for every file, and the icons of a program (IconTheme), for any *)
(* icons, themes and installations: engines fit the theme, and pictures are   *)
(* right, whatever is cached.                                                 *)
EXTENDS ImageHandler, ImageFilters, IconTheme, TLAPS, WellFoundedInduction

Inv == HandlerOK /\ TableOK /\ OptionsFit /\ CacheIsOfTheFile

-----------------------------------------------------------------------------
(* The table: a look-up adds nothing but BMP for what is not known.           *)
LEMMA LookedFaithful ==
    ASSUME NEW table, Faithful(table), NEW suffix
    PROVE Faithful(Looked(table, suffix)) /\ suffix \in DOMAIN Looked(table, suffix)
  <1> DEFINE known == DOMAIN Known
  <1>1. CASE suffix \in DOMAIN table
    BY <1>1 DEF Looked
  <1>2. CASE suffix \notin DOMAIN table
    <2>1. suffix \notin known
      BY <1>2 DEF Faithful
    <2>2. Looked(table, suffix) = [s \in DOMAIN table \cup {suffix} |-> IF s = suffix THEN "BMP" ELSE table[s]]
      BY <1>2 DEF Looked
    <2> HIDE DEF known
    <2>3. known \subseteq DOMAIN table /\ \A s \in DOMAIN table : table[s] = IF s \in known THEN Known[s] ELSE "BMP"
      BY DEF Faithful, known
    <2>4. /\ known \subseteq DOMAIN Looked(table, suffix)
          /\ \A s \in DOMAIN Looked(table, suffix) :
                Looked(table, suffix)[s] = IF s \in known THEN Known[s] ELSE "BMP"
      BY <2>1, <2>2, <2>3
    <2> QED BY <2>2, <2>4 DEF Faithful, known
  <1> QED BY <1>1, <1>2

LEMMA AfterFaithful ==
    ASSUME NEW table, Faithful(table), NEW file
    PROVE /\ Faithful(TableAfter(table, file))
          /\ Recognised(file) => Suffix[file] \in DOMAIN TableAfter(table, file)
  BY LookedFaithful DEF TableAfter

LEMMA LoadFaithful == TableOK => Faithful(TableAfterLoad)
  BY AfterFaithful DEF TableOK, TableAfterLoad

(* In two faithful tables a suffix of both has one type, and a type other     *)
(* than BMP the same suffixes.                                                *)
LEMMA FaithfulAgree ==
    ASSUME NEW t, NEW u, Faithful(t), Faithful(u)
    PROVE /\ \A s \in DOMAIN t \cap DOMAIN u : t[s] = u[s]
          /\ \A type : type # "BMP" => Keys(t, type) = Keys(u, type)
  <1> DEFINE known == DOMAIN Known
  <1>1. /\ known \subseteq DOMAIN t /\ \A s \in DOMAIN t : t[s] = IF s \in known THEN Known[s] ELSE "BMP"
        /\ known \subseteq DOMAIN u /\ \A s \in DOMAIN u : u[s] = IF s \in known THEN Known[s] ELSE "BMP"
    BY DEF Faithful
  <1> HIDE DEF known
  <1> QED BY <1>1 DEF Keys

LEMMA KnownFaithful == Faithful(Known)
  BY DEF Faithful

LEMMA BmpKnown == "BMP" \in DOMAIN Known /\ Known["BMP"] = "BMP"
  BY DEF Known

(* The formats a file is found to have do not depend on earlier look-ups.     *)
THEOREM FaithfulDetection ==
    ASSUME TableOK PROVE DetectionIsStable
  <1> SUFFICES ASSUME NEW file \in Files, disk[file].type # "BMP" \/ Suffix[file] = "BMP"
               PROVE Corrected(freeImageFormats, file) = Corrected(Known, file)
    BY DEF DetectionIsStable, Detected
  <1> DEFINE type == disk[file].type
             t == TableAfter(freeImageFormats, file)
             u == TableAfter(Known, file)
  <1>1. Faithful(t) /\ Faithful(u)
    BY AfterFaithful, KnownFaithful DEF TableOK
  <1>2. CASE ~Recognised(file)
    BY <1>2 DEF Corrected
  <1>3. CASE Recognised(file) /\ type = "TIFF"
    BY <1>3 DEF Corrected
  <1>4. CASE Recognised(file) /\ type # "TIFF"
    <2>1. Suffix[file] \in DOMAIN t /\ Suffix[file] \in DOMAIN u
      BY <1>4, AfterFaithful, KnownFaithful DEF TableOK
    <2>2. t[Suffix[file]] = u[Suffix[file]]
      BY <1>1, <2>1, FaithfulAgree
    <2>3. type # "BMP" => Keys(t, type) = Keys(u, type)
      BY <1>1, FaithfulAgree
    <2>4. Suffix[file] = "BMP" => u[Suffix[file]] = "BMP"
      BY <1>1, <2>1, BmpKnown, KnownFaithful, FaithfulAgree
    <2>5. Corrected(freeImageFormats, file) =
            IF type = t[Suffix[file]] \/ Keys(t, type) = {} THEN {Suffix[file]}
            ELSE {IF k = "" THEN Suffix[file] ELSE k : k \in Keys(t, type)}
      BY <1>4 DEF Corrected
    <2>6. Corrected(Known, file) =
            IF type = u[Suffix[file]] \/ Keys(u, type) = {} THEN {Suffix[file]}
            ELSE {IF k = "" THEN Suffix[file] ELSE k : k \in Keys(u, type)}
      BY <1>4 DEF Corrected
    <2> HIDE DEF t, u
    <2> QED BY <2>2, <2>3, <2>4, <2>5, <2>6
  <1> QED BY <1>2, <1>3, <1>4

-----------------------------------------------------------------------------
(* Pictures.                                                                  *)
LEMMA TurnedOK ==
    ASSUME NEW picture \in Pictures \cup {NoImage}, NEW quarters \in Int
    PROVE Turned(picture, quarters) \in Pictures \cup {NoImage}
  BY DEF Turned, Pictures

LEMMA UprightOK ==
    ASSUME NEW content, ContentOK(content)
    PROVE Upright(content) \in Pictures \cup {NoImage}
  BY TurnedOK DEF Upright, ContentOK

LEMMA SavedOK ==
    ASSUME NEW picture \in Pictures \cup {NoImage}, NEW format
    PROVE ContentOK(Saved(picture, format))
  BY DEF ContentOK, Saved

LEMMA NothingOK == ContentOK(Nothing)
  BY DEF ContentOK, Nothing

LEMMA TurnedTwice ==
    ASSUME NEW picture \in Pictures \cup {NoImage}, NEW quarters \in Int
    PROVE /\ Turned(Turned(picture, quarters), 0) = Turned(picture, quarters)
          /\ Turned(Turned(picture, 0), quarters) = Turned(picture, quarters)
  BY DEF Turned, Pictures

(* What is loaded is the picture of the file, stored or upright, or nothing.  *)
LEMMA LoadedIsOfTheFile ==
    ASSUME NEW image \in Loadable, image # NoImage
    PROVE fileName # NoFile /\ image \in {disk[fileName].picture, Upright(disk[fileName])}
  <1>1. ~Absent
    BY DEF Loadable
  <1>2. PICK format \in LoadFormats(fileName) : image \in Loads(fileName, format)
    BY <1>1 DEF Loadable
  <1> QED BY <1>1, <1>2 DEF Absent, Loads, FreeImageLoads

-----------------------------------------------------------------------------
(* What a step does to the disk, as far as the invariant can tell.            *)
DiskOK == DOMAIN disk = Files /\ \A file \in Files : ContentOK(disk[file])
Kept ==
    /\ DiskOK'
    /\ written' \in BOOLEAN
    /\ fileName \in Files /\ cachedImage' # NoImage /\ ~written' =>
          ~written /\ disk'[fileName] = disk[fileName]
    /\ written' => written \/ cachedImage' # NoImage

LEMMA WriteKept ==
    ASSUME HandlerOK, NEW file \in Files, NEW content, ContentOK(content), Writes(file, content)
    PROVE Kept
  <1>1. DOMAIN disk' = Files /\ disk'[file] = content /\ \A f \in Files \ {file} : disk'[f] = disk[f]
    BY DEF HandlerOK, Writes
  <1>2. \A f \in Files : ContentOK(disk[f])
    BY DEF HandlerOK
  <1>3. \A f \in Files : ContentOK(disk[f])'
    BY <1>1, <1>2 DEF ContentOK
  <1>4. /\ written' \in BOOLEAN
        /\ cachedImage' # NoImage /\ ~written' => ~written /\ file # fileName
        /\ written' => written \/ cachedImage' # NoImage
    BY DEF Writes, HandlerOK
  <1> QED BY <1>1, <1>3, <1>4 DEF Kept, DiskOK

LEMMA UnwrittenKept ==
    ASSUME HandlerOK, UNCHANGED <<disk, written>> PROVE Kept
  <1>1. \A f \in Files : ContentOK(disk[f])'
    BY DEF HandlerOK, ContentOK
  <1> QED BY <1>1 DEF HandlerOK, Kept, DiskOK

LEMMA SaveFailsKept ==
    ASSUME HandlerOK, NEW file \in Files, SaveFails(file) PROVE Kept
  BY WriteKept, UnwrittenKept, NothingOK DEF SaveFails

LEMMA SaveImageKept ==
    ASSUME HandlerOK, NEW picture \in Pictures \cup {NoImage}, NEW table, NEW file \in Files, NEW format,
           Faithful(table), SaveImage(picture, table, file, format)
    PROVE Kept /\ TableOK' /\ UNCHANGED <<fileName, options, cachedFormat>>
  <1>1. PICK real : \/ real \in SaveableFormats /\ Save(picture, file, real) /\ UNCHANGED lastError
                    \/ real \in SaveableFormats /\ SaveFails(file) /\ lastError' = TRUE
                    \/ real \notin SaveableFormats /\ lastError' = TRUE /\ UNCHANGED <<disk, written>>
    BY DEF SaveImage
  <1>2. Kept
    BY <1>1, SavedOK, WriteKept, SaveFailsKept, UnwrittenKept DEF Save
  <1>3. TableOK'
    <2>1. freeImageFormats' = table \/ freeImageFormats' = TableAfter(table, file)
      BY DEF SaveImage
    <2>2. Faithful(freeImageFormats')
      BY <2>1, AfterFaithful
    <2> QED BY <2>2 DEF TableOK, Faithful
  <1> QED BY <1>2, <1>3 DEF SaveImage

(* Such a step keeps the invariant, if it leaves the handler's file and its   *)
(* options, and the image, or loads it.                                       *)
LEMMA KeptInv ==
    ASSUME Inv, Kept, TableOK', UNCHANGED <<fileName, options, cachedFormat>>,
           \/ UNCHANGED cachedImage
           \/ cachedImage = NoImage /\ cachedImage' \in Loadable
    PROVE Inv'
  <1>1. cachedImage' \in Pictures \cup {NoImage}
    <2>1. CASE UNCHANGED cachedImage
      BY <2>1 DEF Inv, HandlerOK
    <2>2. CASE cachedImage' \in Loadable /\ cachedImage' # NoImage
      <3>1. fileName \in Files /\ cachedImage' \in {disk[fileName].picture, Upright(disk[fileName])}
        BY <2>2, LoadedIsOfTheFile DEF Inv, HandlerOK
      <3>2. ContentOK(disk[fileName])
        BY <3>1 DEF Inv, HandlerOK
      <3> QED BY <3>1, <3>2, UprightOK DEF ContentOK
    <2> QED BY <2>1, <2>2
  <1>2. HandlerOK'
    BY <1>1 DEF Inv, HandlerOK, Kept, DiskOK
  <1>3. OptionsFit'
    BY DEF Inv, OptionsFit, formatReadable, formatWriteable, SupportFormats, QtSupportFormats, Known
  <1>4. CacheIsOfTheFile'
    <2> SUFFICES ASSUME cachedImage' # NoImage
                 PROVE fileName # NoFile /\ (written' \/ cachedImage' \in {disk[fileName].picture, Upright(disk[fileName])}')
      BY DEF CacheIsOfTheFile
    <2>1. /\ fileName # NoFile
          /\ written \/ cachedImage' \in {disk[fileName].picture, Upright(disk[fileName])}
      BY LoadedIsOfTheFile DEF Inv, CacheIsOfTheFile
    <2>2. fileName \in Files
      BY <2>1 DEF Inv, HandlerOK
    <2>3. CASE ~written'
      <3>1. ~written /\ disk'[fileName'] = disk[fileName]
        BY <2>2, <2>3 DEF Kept
      <3> QED BY <2>1, <3>1 DEF Upright
    <2> QED BY <2>1, <2>3 DEF Kept
  <1> QED BY <1>2, <1>3, <1>4 DEF Inv

-----------------------------------------------------------------------------
LEMMA InitInv == ConstantsOK /\ Init => Inv
  <1> SUFFICES ASSUME ConstantsOK, Init PROVE Inv
    OBVIOUS
  <1>1. HandlerOK
    <2>1. DOMAIN disk = Files /\ \A file \in Files : disk[file] \in Contents \cup {Nothing}
      BY DEF Init
    <2> QED BY <2>1, NothingOK DEF ConstantsOK, Init, HandlerOK
  <1>2. TableOK
    BY KnownFaithful DEF Init, TableOK
  <1>3. OptionsFit /\ CacheIsOfTheFile
    BY DEF Init, OptionsFit, CacheIsOfTheFile
  <1> QED BY <1>1, <1>2, <1>3 DEF Inv

LEMMA TableStep ==
    ASSUME NEW table, Faithful(table), freeImageFormats' = table
    PROVE TableOK'
  BY DEF TableOK, Faithful

(* readImage, thumbnail and imageSize                                         *)
LEMMA LoadInv ==
    ASSUME Inv, Load, UNCHANGED <<disk, fileName, options, cachedFormat>>
    PROVE Inv'
  <1>1. TableOK'
    BY LoadFaithful, TableStep DEF Inv, TableOK, Load
  <1>2. \/ UNCHANGED <<cachedImage, written>>
        \/ cachedImage = NoImage /\ cachedImage' \in Loadable /\ written' = FALSE
    BY DEF Load
  <1>3. Kept
    <2>1. DiskOK'
      BY UnwrittenKept DEF Inv, HandlerOK, DiskOK, ContentOK
    <2>2. ~written \/ cachedImage # NoImage
      BY DEF Inv, HandlerOK
    <2>3. written \in BOOLEAN
      BY DEF Inv, HandlerOK
    <2>4. CASE UNCHANGED <<cachedImage, written>>
      BY <2>1, <2>3, <2>4 DEF Kept
    <2>5. CASE cachedImage = NoImage /\ written' = FALSE
      BY <2>1, <2>2, <2>5 DEF Kept
    <2> QED BY <1>2, <2>4, <2>5
  <1> QED BY <1>1, <1>2, <1>3, KeptInv

LEMMA SetFileNameInv ==
    ASSUME Inv, NEW file \in Files \cup {NoFile}, ConstantsOK, setFileName(file)
    PROVE Inv'
  <1>1. TableOK'
    BY AfterFaithful, TableStep DEF Inv, TableOK, setFileName
  <1>2. HandlerOK'
    BY DEF Inv, HandlerOK, setFileName, ContentOK
  <1>3. CacheIsOfTheFile'
    BY DEF setFileName, CacheIsOfTheFile
  <1>4. OptionsFit'
    <2>1. CASE file = NoFile
      BY <2>1 DEF setFileName, OptionsFit
    <2>2. CASE file # NoFile
      <3>1. /\ fileName' # NoFile
            /\ options' = (IF formatReadable(cachedFormat') THEN {"Readable"} ELSE {})
                          \cup (IF formatWriteable(cachedFormat') THEN {"Wirteable", "Rotatable"} ELSE {})
        BY <2>2 DEF setFileName
      <3>2. /\ formatReadable(cachedFormat') <=> formatReadable(cachedFormat)'
            /\ formatWriteable(cachedFormat') <=> formatWriteable(cachedFormat)'
        BY DEF formatReadable, formatWriteable, SupportFormats, QtSupportFormats, Known
      <3> QED BY <3>1, <3>2 DEF OptionsFit
    <2> QED BY <2>1, <2>2
  <1> QED BY <1>1, <1>2, <1>3, <1>4 DEF Inv

LEMMA ClearCacheInv ==
    ASSUME Inv, clearCache PROVE Inv'
  <1>1. TableOK'
    BY TableStep DEF Inv, TableOK, clearCache
  <1>2. HandlerOK'
    BY DEF Inv, HandlerOK, clearCache, ContentOK
  <1>3. CacheIsOfTheFile' /\ OptionsFit'
    BY DEF Inv, clearCache, CacheIsOfTheFile, OptionsFit
  <1> QED BY <1>1, <1>2, <1>3 DEF Inv

LEMMA SaveOwnImageInv ==
    ASSUME Inv, NEW file \in Files, NEW format, saveOwnImage(file, format)
    PROVE Inv'
  <1>1. CASE cachedImage # NoImage /\ saveImage(cachedImage, file, format)
    <2>1. Kept /\ TableOK' /\ UNCHANGED <<fileName, options, cachedFormat>>
      BY <1>1, SaveImageKept DEF Inv, HandlerOK, TableOK, saveImage
    <2> QED BY <1>1, <2>1, KeptInv DEF saveImage
  <1>2. CASE /\ cachedImage = NoImage /\ cachedImage' \in Loadable /\ cachedImage' # NoImage
             /\ SaveImage(cachedImage', TableAfterLoad, file, format)
    <2>1. cachedImage' \in Pictures \cup {NoImage}
      <3>1. fileName \in Files /\ cachedImage' \in {disk[fileName].picture, Upright(disk[fileName])}
        BY <1>2, LoadedIsOfTheFile DEF Inv, HandlerOK
      <3>2. ContentOK(disk[fileName])
        BY <3>1 DEF Inv, HandlerOK
      <3> QED BY <3>1, <3>2, UprightOK DEF ContentOK
    <2>2. Faithful(TableAfterLoad)
      BY LoadFaithful DEF Inv
    <2>3. Kept /\ TableOK' /\ UNCHANGED <<fileName, options, cachedFormat>>
      BY <1>2, <2>1, <2>2, SaveImageKept DEF Inv
    <2> QED BY <1>2, <2>3, KeptInv
  <1>3. CASE /\ cachedImage = NoImage /\ cachedImage' \in Loadable /\ cachedImage' = NoImage
             /\ freeImageFormats' = TableAfterLoad
             /\ UNCHANGED <<disk, written, fileName, options, cachedFormat>>
    BY <1>3, LoadFaithful, TableStep, UnwrittenKept, KeptInv DEF Inv
  <1> QED BY <1>1, <1>2, <1>3 DEF saveOwnImage

LEMMA RotateInv ==
    ASSUME ConstantsOK, Inv, NEW file \in Files, NEW angle \in Angles, rotateImageFile(file, angle)
    PROVE Inv'
  <1>1. UNCHANGED <<fileName, options, cachedImage, cachedFormat>>
    BY DEF rotateImageFile
  <1>2. TableOK'
    BY AfterFaithful, TableStep DEF Inv, TableOK, rotateImageFile
  <1>3. Kept
    <2>1. CASE RotationFails
      BY <2>1, UnwrittenKept DEF RotationFails, Inv
    <2>2. ASSUME NEW format, RotateAs(format, file, angle \div 90) PROVE Kept
      <3> DEFINE q == angle \div 90
      <3>1. q \in Int
        BY DEF ConstantsOK
      <3>2. ContentOK(disk[file])
        BY DEF Inv, HandlerOK
      <3> HIDE DEF q
      <3>3. ContentOK(Saved(RotatedByQt(disk[file], q), format))
        BY <3>1, <3>2, SavedOK, TurnedOK, UprightOK DEF RotatedByQt, ContentOK
      <3>4. ASSUME NEW turn \in {disk[file].turn, 0} PROVE ContentOK(RotatedByFreeImage(file, q, turn))
        <4>1. Turned(disk[file].picture, q) \in Pictures \cup {NoImage} /\ turn \in 0..3
          BY <3>1, <3>2, TurnedOK DEF ContentOK
        <4> QED BY <4>1 DEF RotatedByFreeImage, ContentOK
      <3>5. \/ RotationFails
            \/ Save(RotatedByQt(disk[file], q), file, format)
            \/ SaveFails(file)
            \/ \E turn \in {disk[file].turn, 0} : Writes(file, RotatedByFreeImage(file, q, turn))
        BY <2>2 DEF RotateAs, q
      <3>6. CASE RotationFails
        BY <3>6, <2>1
      <3>7. CASE Save(RotatedByQt(disk[file], q), file, format)
        BY <3>3, <3>7, WriteKept DEF Save, Inv
      <3>8. CASE SaveFails(file)
        BY <3>8, SaveFailsKept DEF Inv
      <3>9. CASE \E turn \in {disk[file].turn, 0} : Writes(file, RotatedByFreeImage(file, q, turn))
        BY <3>4, <3>9, WriteKept DEF Inv
      <3> QED BY <3>5, <3>6, <3>7, <3>8, <3>9
    <2> QED BY <2>1, <2>2 DEF rotateImageFile
  <1> QED BY <1>1, <1>2, <1>3, KeptInv

(* Every step keeps the invariant.                                            *)
LEMMA NextInv == ConstantsOK /\ Inv /\ [Next]_vars => Inv'
  <1> SUFFICES ASSUME ConstantsOK, Inv, [Next]_vars PROVE Inv'
    OBVIOUS
  <1>1. CASE UNCHANGED vars
    <2>1. UNCHANGED <<disk, freeImageFormats, fileName, options, cachedImage, cachedFormat, lastError, written>>
      BY <1>1 DEF vars, handler
    <2> QED BY <2>1, UnwrittenKept, TableStep, KeptInv DEF Inv, TableOK
  <1>2. CASE readImage
    <2>1. CASE Load
      BY <1>2, <2>1, LoadInv DEF readImage
    <2>2. CASE ~("Readable" \in options)
      BY <1>2, <2>2, UnwrittenKept, TableStep, KeptInv DEF Inv, TableOK, readImage
    <2> QED BY <1>2, <2>1, <2>2 DEF readImage
  <1>3. CASE thumbnail \/ imageSize
    BY <1>3, LoadInv DEF thumbnail, imageSize
  <1>4. CASE clearCache
    BY <1>4, ClearCacheInv
  <1>5. ASSUME NEW file \in Files \cup {NoFile}, setFileName(file) PROVE Inv'
    BY <1>5, SetFileNameInv
  <1>6. ASSUME NEW file \in Files, detectImageFormat(file) PROVE Inv'
    BY <1>6, AfterFaithful, TableStep, UnwrittenKept, KeptInv DEF Inv, TableOK, detectImageFormat, handler
  <1>7. ASSUME NEW file \in Files, NEW format \in Formats, saveOwnImage(file, format) PROVE Inv'
    BY <1>7, SaveOwnImageInv
  <1>8. ASSUME NEW file \in Files, NEW s \in Shows, NEW format \in Formats, saveImage(<<s, 0>>, file, format)
        PROVE Inv'
    <2>1. <<s, 0>> \in Pictures
      BY DEF Pictures
    <2>2. Kept /\ TableOK' /\ UNCHANGED <<fileName, options, cachedFormat>>
      BY <1>8, <2>1, SaveImageKept DEF Inv, TableOK, saveImage
    <2> QED BY <1>8, <2>2, KeptInv DEF saveImage
  <1>9. ASSUME NEW file \in Files, NEW angle \in Angles, rotateImageFile(file, angle) PROVE Inv'
    BY <1>9, RotateInv
  <1>10. ASSUME NEW file \in Files, NEW content \in Contents \cup {Nothing}, OtherWrites(file, content)
         PROVE Inv'
    BY <1>10, WriteKept, NothingOK, TableStep, KeptInv DEF ConstantsOK, Inv, TableOK, OtherWrites, handler
  <1> QED BY <1>1, <1>2, <1>3, <1>4, <1>5, <1>6, <1>7, <1>8, <1>9, <1>10 DEF Next

(* An image that a handler keeps is the one of its file, as stored or         *)
(* upright, as long as nobody writes to that file.                            *)
THEOREM ImagesAreOfTheFile ==
    ASSUME ConstantsOK PROVE Spec => [](CacheIsOfTheFile /\ OptionsFit)
  <1>1. Inv => CacheIsOfTheFile /\ OptionsFit
    BY DEF Inv
  <1> QED BY InitInv, NextInv, <1>1, PTL DEF Spec

(* Whatever a process has looked up, opened, saved and rotated before, a file *)
(* is found to have the format that a new process finds, unless it is a       *)
(* bitmap under another name.                                                 *)
THEOREM DetectionDoesNotDrift ==
    ASSUME ConstantsOK PROVE Spec => []DetectionIsStable
  <1>1. Inv => DetectionIsStable
    BY FaithfulDetection DEF Inv
  <1> QED BY InitInv, NextInv, <1>1, PTL DEF Spec

(* rotateImageFile turns what is seen of a file by just the angle asked for,  *)
(* where Qt rotates the format and FreeImage can tell the EXIF data.          *)
THEOREM FilesAreRotatedAsAsked ==
    ASSUME ConstantsOK PROVE Spec => RotationsAreRight
  <1>1. ASSUME ConstantsOK, Inv, Next PROVE RotatedAsAsked
    <2> SUFFICES ASSUME NEW file \in Files, NEW angle \in Angles,
                        rotateImageFile(file, angle),
                        Detected(freeImageFormats, file) \subseteq QtRotatableFormats,
                        FreeImage \/ disk[file].turn = 0,
                        disk'[file] \notin {disk[file], Nothing}
                 PROVE Upright(disk'[file]) = Turned(Upright(disk[file]), angle \div 90)
      BY DEF RotatedAsAsked
    <2> DEFINE q == angle \div 90
    <2>1. q \in Int
      BY <1>1 DEF ConstantsOK
    <2>2. ContentOK(disk[file]) /\ file \in DOMAIN disk
      BY <1>1 DEF Inv, HandlerOK
    <2>3. PICK format \in QtRotatableFormats : RotateAs(format, file, q)
      BY DEF rotateImageFile, RotationFails
    <2> HIDE DEF q
    <2>4. disk' = [disk EXCEPT ![file] = Saved(RotatedByQt(disk[file], q), format)]
      BY <2>2, <2>3 DEF RotateAs, RotationFails, SaveFails, Save, Writes
    <2>5. Upright(disk'[file]) = Turned(RotatedByQt(disk[file], q), 0)
      BY <2>2, <2>4 DEF Saved, Upright
    <2>6. CASE FreeImage
      BY <2>1, <2>2, <2>5, <2>6, UprightOK, TurnedTwice DEF RotatedByQt, q
    <2>7. CASE ~FreeImage /\ disk[file].turn = 0
      BY <2>1, <2>2, <2>5, <2>7, TurnedTwice DEF RotatedByQt, Upright, ContentOK, q
    <2> QED BY <2>6, <2>7
  <1>2. ASSUME UNCHANGED vars PROVE [RotatedAsAsked]_vars
    BY <1>2
  <1>3. ConstantsOK /\ Inv /\ [Next]_vars => [RotatedAsAsked]_vars
    BY <1>1
  <1> QED BY InitInv, NextInv, <1>3, PTL DEF Spec, RotationsAreRight
-----------------------------------------------------------------------------
LEMMA Bounded == ASSUME NEW v \in Int PROVE Bound(v) \in Byte
  BY DEF Bound, Greater, Lesser, Byte

LEMMA BoundKept == ASSUME NEW v \in Byte PROVE Bound(v) = v
  BY DEF Bound, Greater, Lesser, Byte

LEMMA StoredByte == ASSUME NEW v \in Int PROVE Stored(v) \in Byte
  BY DEF Stored, Byte

LEMMA Channels == ASSUME NEW p \in Pixels PROVE p[1] \in Byte /\ p[2] \in Byte /\ p[3] \in Byte
  BY DEF Pixels

LEMMA Quotients ==
    /\ \A a \in Int : a \div 1000 \in Int
    /\ \A a \in 0..765 : a \div 3 \in Byte
    /\ \A a \in Int : 0 <= a /\ a < 256000 => a \div 1000 \in Byte
    /\ \A a \in Int, d \in Int : d > 0 => a \div d \in Int
  <1>1. \A a \in Int : a \div 1000 \in Int
    OBVIOUS
  <1>2. \A a \in 0..765 : a \div 3 \in Byte
    BY DEF Byte
  <1>3. \A a \in Int : 0 <= a /\ a < 256000 => a \div 1000 \in Byte
    BY DEF Byte
  <1>4. \A a \in Int, d \in Int : d > 0 => a \div d \in Int
    OBVIOUS
  <1> QED BY <1>1, <1>2, <1>3, <1>4

LEMMA Sums ==
    ASSUME NEW r \in Byte, NEW g \in Byte, NEW b \in Byte
    PROVE /\ r + g + b \in 0..765
          /\ 393 * r + 769 * g + 189 * b \in Int
          /\ 349 * r + 686 * g + 168 * b \in Int
          /\ 272 * r + 534 * g + 131 * b \in Int
          /\ r * 299 + g * 587 + g * 114 + 500 \in Int
          /\ 0 <= r * 299 + g * 587 + g * 114 + 500
          /\ r * 299 + g * 587 + g * 114 + 500 < 256000
  BY DEF Byte

LEMMA AverageByte == ASSUME NEW p \in Pixels PROVE Average(p) \in Byte
  <1>1. p[1] + p[2] + p[3] \in 0..765
    BY Channels, Sums
  <1> QED BY <1>1, Quotients DEF Average

LEMMA GreyPixel == ASSUME NEW v \in Byte PROVE Grey(v) \in Pixels
  BY DEF Grey, Pixels

(* Every filter of one pixel makes a pixel of a pixel, whatever its argument  *)
(* is: nothing but warm and cool colours relies on the wrap of a byte.        *)
THEOREM FiltersGivePixels ==
    ASSUME NEW p \in Pixels, NEW n \in Int, NEW m \in Int
    PROVE /\ OldColor(p) \in Pixels
          /\ WarmColor(p, n) \in Pixels /\ CoolColor(p, n) \in Pixels
          /\ GrayScaleColor(p) \in Pixels /\ GrayScale(p) \in Pixels
          /\ AntiColor(p) \in Pixels /\ Binary(p) \in Pixels
          /\ Brighter(p, n) \in Pixels /\ LightAndContrast(p, n, m) \in Pixels
          /\ Metal(p) \in Pixels
  <1> USE Channels
  <1>1. OldColor(p) \in Pixels
    <2>1. /\ (393 * p[1] + 769 * p[2] + 189 * p[3]) \div 1000 \in Int
          /\ (349 * p[1] + 686 * p[2] + 168 * p[3]) \div 1000 \in Int
          /\ (272 * p[1] + 534 * p[2] + 131 * p[3]) \div 1000 \in Int
      <3>1. /\ 393 * p[1] + 769 * p[2] + 189 * p[3] \in Int
            /\ 349 * p[1] + 686 * p[2] + 168 * p[3] \in Int
            /\ 272 * p[1] + 534 * p[2] + 131 * p[3] \in Int
        BY Sums
      <3> QED BY <3>1, Quotients
    <2> QED BY <2>1, Bounded DEF OldColor, Pixels
  <1>2. WarmColor(p, n) \in Pixels /\ CoolColor(p, n) \in Pixels
    <2>1. ASSUME NEW v \in Byte PROVE Warmer(v, n) \in Byte
      BY StoredByte DEF Warmer, Lesser, Byte
    <2> QED BY <2>1 DEF WarmColor, CoolColor, Pixels
  <1>3. Average(p) \in Byte
    BY AverageByte
  <1>4. GrayScaleColor(p) \in Pixels
    BY <1>3, GreyPixel DEF GrayScaleColor, Lesser, Byte
  <1>5. ASSUME NEW q \in Pixels PROVE GrayScale(q) \in Pixels
    <2>1. q[1] \in Byte /\ q[2] \in Byte
      BY <1>5, Channels
    <2>2. (q[1] * 299 + q[2] * 587 + q[2] * 114 + 500) \div 1000 \in Byte
      <3>1. /\ q[1] * 299 + q[2] * 587 + q[2] * 114 + 500 \in Int
            /\ 0 <= q[1] * 299 + q[2] * 587 + q[2] * 114 + 500
            /\ q[1] * 299 + q[2] * 587 + q[2] * 114 + 500 < 256000
        BY <2>1, Sums
      <3> QED BY <3>1, Quotients
    <2> QED BY <2>2, GreyPixel DEF GrayScale
  <1>6. AntiColor(p) \in Pixels
    BY DEF AntiColor, Pixels, Byte
  <1>7. Binary(p) \in Pixels
    BY DEF Binary, White, Black, Pixels, Byte
  <1>8. ASSUME NEW b \in Int PROVE Brighter(p, b) \in Pixels
    BY Bounded DEF Brighter, Pixels, Byte
  <1>9. LightAndContrast(p, n, m) \in Pixels
    <2>1. ASSUME NEW v \in Byte PROVE Lit(v, n, m) \in Byte
      <3>1. n * v \in Int
        BY DEF Byte
      <3>2. (n * v) \div 100 - 150 + m \in Int
        BY <3>1
      <3> QED BY <3>2, Bounded DEF Lit
    <2> QED BY <2>1 DEF LightAndContrast, Pixels
  <1>10. Metal(p) \in Pixels
    <2> DEFINE dark == GrayScale(Brighter(p, -100))
    <2>1. dark \in Pixels
      BY <1>5, <1>8
    <2>2. dark[1] \in Byte /\ dark[2] \in Byte /\ dark[3] \in Byte
      BY <2>1, Channels
    <2> HIDE DEF dark
    <2>3. ASSUME NEW a \in Byte, NEW b \in Byte PROVE (a + b) \div 2 \in Byte
      BY DEF Byte
    <2>4. <<(p[1] + dark[1]) \div 2, (p[2] + dark[2]) \div 2, (p[3] + dark[3]) \div 2>> \in Pixels
      BY <2>2, <2>3 DEF Pixels
    <2> QED BY <2>4 DEF Metal, dark
  <1> QED BY <1>1, <1>2, <1>4, <1>5, <1>6, <1>7, <1>8, <1>9, <1>10

(* antiColorFilter undoes itself, and binaryzation and grayScaleColorFilter   *)
(* change nothing that they made.                                             *)
THEOREM FiltersTwice ==
    ASSUME NEW p \in Pixels
    PROVE /\ AntiColor(AntiColor(p)) = p
          /\ Binary(Binary(p)) = Binary(p)
          /\ GrayScaleColor(GrayScaleColor(p)) = GrayScaleColor(p)
  <1> USE Channels
  <1>1. AntiColor(AntiColor(p)) = p
    BY DEF AntiColor, Pixels, Byte
  <1>2. Binary(Binary(p)) = Binary(p)
    BY DEF Binary, Average, White, Black
  <1>3. GrayScaleColor(GrayScaleColor(p)) = GrayScaleColor(p)
    <2>1. ASSUME NEW v \in Byte PROVE GrayScaleColor(Grey(v)) = Grey(v)
      BY DEF GrayScaleColor, Average, Grey, Lesser, Byte
    <2>2. Lesser(Average(p), 255) \in Byte
      BY AverageByte DEF Lesser, Byte
    <2> QED BY <2>1, <2>2 DEF GrayScaleColor
  <1> QED BY <1>1, <1>2, <1>3

(* changeStauration divides by no zero below 100, for any colour that is not  *)
(* grey (a grey one it leaves out).                                           *)
THEOREM StaurationIsDefined ==
    ASSUME NEW least \in Byte, NEW most \in Byte, least < most, NEW saturation \in Int, saturation < 100
    PROVE Divides(least, most, saturation)
  <1> DEFINE value == most + least
             delta == most - least
             s == Saturated(least, most)
  <1>1. value \in 1..509 /\ delta \in 1..255 /\ 510 - value \in 1..509
    BY DEF Byte
  <1>2. s \in Int
    <2>1. (delta * 128) \div value \in Int /\ (delta * 128) \div (510 - value) \in Int
      <3>1. delta * 128 \in Int
        BY <1>1
      <3> QED BY <1>1, <3>1, Quotients
    <2> QED BY <2>1 DEF Saturated
  <1> HIDE DEF s
  <1>3. CASE saturation < 0
    BY <1>3 DEF Divides
  <1>4. CASE 128 * saturation + 100 * s >= 12800
    <2>1. s # 0
      BY <1>2, <1>4
    <2> QED BY <1>4, <2>1 DEF Divides, Divisor, s
  <1>5. CASE saturation >= 0 /\ ~(128 * saturation + 100 * s >= 12800)
    <2>1. 12800 - 128 * saturation \in Int /\ 12800 - 128 * saturation >= 128
      BY <1>5
    <2>2. (12800 - 128 * saturation) \div 100 # 0
      BY <2>1
    <2> QED BY <1>5, <2>2 DEF Divides, Divisor, s
  <1> QED BY <1>3, <1>4, <1>5

(* adjustImageToRealOrientation shows row 0 and column 0 of a file where its  *)
(* orientation says, for every orientation and every size of a picture.       *)
THEOREM OrientationsAreShown ==
    ASSUME NEW o \in Orientations, NEW w \in Nat \ {0}, NEW h \in Nat \ {0}
    PROVE OnSides(o, w, h)
  <1> SUFFICES ASSUME NEW x \in 0..(w - 1), NEW y \in 0..(h - 1)
      PROVE /\ IsOnSide(RowZero(o), Seen(o, <<x, 0>>, w, h), SeenWidth(o, w, h), SeenHeight(o, w, h))
            /\ IsOnSide(ColumnZero(o), Seen(o, <<0, y>>, w, h), SeenWidth(o, w, h), SeenHeight(o, w, h))
    BY DEF OnSides
  <1> USE DEF IsOnSide, RowZero, ColumnZero, Seen, SeenWidth, SeenHeight, Sideways,
              Rotated, HalfTurned, RotatedBack, FlipHorizontal, FlipVertical
  <1>1. CASE o = "TopLeft"
    BY <1>1
  <1>2. CASE o = "TopRight"
    BY <1>2
  <1>3. CASE o = "BottomRight"
    BY <1>3
  <1>4. CASE o = "BottomLeft"
    BY <1>4
  <1>5. CASE o = "LeftTop"
    BY <1>5
  <1>6. CASE o = "RightTop"
    BY <1>6
  <1>7. CASE o = "RightBottom"
    BY <1>7
  <1>8. CASE o = "LeftBottom"
    BY <1>8
  <1> QED BY <1>1, <1>2, <1>3, <1>4, <1>5, <1>6, <1>7, <1>8 DEF Orientations

-----------------------------------------------------------------------------
(* The search.                                                                *)
LEMMA LeastIs ==
    ASSUME NEW S, S \subseteq Nat, S # {}
    PROVE Min(S) \in S /\ \A j \in S : Min(S) <= j
  <1>1. \E i \in S : \A j \in S : ~(<<j, i>> \in OpToRel(<, Nat))
    BY WFMin, NatLessThanWellFounded
  <1>2. PICK i \in S : \A j \in S : ~(<<j, i>> \in OpToRel(<, Nat))
    BY <1>1
  <1>3. ASSUME NEW j \in S, ~(i <= j) PROVE FALSE
    <2>1. j \in Nat /\ i \in Nat /\ j < i
      BY <1>3
    <2>2. <<j, i>> \in OpToRel(<, Nat)
      BY <2>1 DEF OpToRel
    <2> QED BY <1>2, <2>2
  <1>4. \E x \in S : \A y \in S : x <= y
    BY <1>2, <1>3
  <1> QED BY <1>4 DEF Min

LEMMA GreatestIs ==
    ASSUME NEW n \in Nat, NEW S, S \subseteq 1..n, S # {}
    PROVE Max(S) \in S /\ \A j \in S : j <= Max(S)
  <1> DEFINE T == {n - i : i \in S}
  <1>1. T \subseteq Nat /\ T # {}
    <2>1. PICK i \in S : TRUE
      OBVIOUS
    <2>2. n - i \in T
      BY <2>1
    <2>3. ASSUME NEW t \in T PROVE t \in Nat
      <3>1. PICK j \in S : t = n - j
        BY <2>3
      <3>2. j \in 1..n
        OBVIOUS
      <3> QED BY <3>1, <3>2
    <2> QED BY <2>2, <2>3
  <1>2. Min(T) \in T /\ \A u \in T : Min(T) <= u
    BY <1>1, LeastIs
  <1>3. PICK i \in S : Min(T) = n - i
    BY <1>2
  <1>4. ASSUME NEW j \in S PROVE j <= i
    <2>1. n - i <= n - j
      BY <1>2, <1>3
    <2> QED BY <2>1
  <1>5. \E x \in S : \A y \in S : x >= y
    BY <1>4
  <1> QED BY <1>5 DEF Max

(* The node that is found is the one of the size that is wanted.              *)
LEMMA NodeIs ==
    ASSUME NEW file, InOrder(file), NEW size \in Nat,
           NEW nodes, nodes = LoadIconList(file), ~IsEmpty(nodes)
    PROVE  LET neighbor == FindIconsByLowerBoundSize(nodes, size, FALSE)
               n == IF neighbor = 0 THEN Max(DOMAIN nodes) ELSE neighbor
           IN /\ n \in DOMAIN nodes
              /\ \/ nodes[n].size >= size /\ \A m \in DOMAIN nodes :
                       nodes[m].size >= size => nodes[n].size <= nodes[m].size
                 \/ \A m \in DOMAIN nodes : nodes[m].size < size /\ nodes[m].size <= nodes[n].size
  <1> DEFINE enough == {n \in DOMAIN nodes : Reaches(nodes[n], size, FALSE)}
             neighbor == FindIconsByLowerBoundSize(nodes, size, FALSE)
             n == IF neighbor = 0 THEN Max(DOMAIN nodes) ELSE neighbor
  <1>1. /\ DOMAIN nodes \subseteq 1..Len(file) /\ Len(file) \in Nat /\ DOMAIN nodes # {}
        /\ \A m \in DOMAIN nodes : nodes[m].size = file[m].size /\ file[m].size # Bad
    BY DEF LoadIconList, InOrder, IsEmpty
  <1>2. \A m \in DOMAIN nodes : m \in Nat \ {0} /\ nodes[m].size \in Nat
    BY <1>1 DEF InOrder
  <1>3. \A l, m \in DOMAIN nodes : l <= m => nodes[l].size <= nodes[m].size
    <2> SUFFICES ASSUME NEW l \in DOMAIN nodes, NEW m \in DOMAIN nodes, l < m
                 PROVE  nodes[l].size <= nodes[m].size
      BY <1>2
    <2>1. file[l].size < file[m].size
      BY <1>1 DEF InOrder
    <2> QED BY <1>1, <1>2, <2>1
  <1>4. \A m \in DOMAIN nodes : m \in enough <=> nodes[m].size >= size
    BY DEF Reaches
  <1>5. CASE enough = {}
    <2>1. neighbor = 0
      BY <1>5 DEF FindIconsByLowerBoundSize
    <2>2. n \in DOMAIN nodes /\ \A j \in DOMAIN nodes : j <= n
      BY <1>1, <2>1, GreatestIs
    <2> HIDE DEF n, neighbor
    <2>3. ASSUME NEW m \in DOMAIN nodes PROVE nodes[m].size < size /\ nodes[m].size <= nodes[n].size
      <3>1. ~(nodes[m].size >= size)
        BY <1>4, <1>5
      <3> QED BY <1>2, <1>3, <2>2, <3>1
    <2> QED BY <2>2, <2>3 DEF n, neighbor
  <1>6. CASE enough # {}
    <2>1. neighbor = Min(enough)
      BY <1>6 DEF FindIconsByLowerBoundSize
    <2>2. neighbor \in enough /\ \A j \in enough : neighbor <= j
      BY <1>2, <1>6, <2>1, LeastIs
    <2>3. n = neighbor
      BY <1>2, <2>2
    <2> HIDE DEF n, neighbor
    <2>4. nodes[n].size >= size /\ \A m \in DOMAIN nodes :
              nodes[m].size >= size => nodes[n].size <= nodes[m].size
      BY <1>3, <1>4, <2>2, <2>3
    <2> QED BY <2>2, <2>3, <2>4 DEF n, neighbor
  <1> QED BY <1>5, <1>6

(* A file whose directories come by size is searched for the image the format *)
(* asks for.                                                                  *)
THEOREM SearchIsRight ==
    ASSUME NEW file, InOrder(file), NEW size \in Nat, NEW type, NEW mode
    PROVE  RightMatch(file, Image(TryMatchIcon(LoadIconList(file), size, type, mode, FALSE, TRUE), 1),
                      size, type, mode)
  <1> DEFINE nodes == LoadIconList(file)
             neighbor == FindIconsByLowerBoundSize(nodes, size, FALSE)
             n == IF neighbor = 0 THEN Max(DOMAIN nodes) ELSE neighbor
             W(e) == Weight(e, type, mode, TRUE)
             best == {e \in nodes[n].entries : W(e) > 0 /\ \A o \in nodes[n].entries : W(e) >= W(o)}
             usable == UNION {Entries(file[m]) : m \in {m \in DOMAIN file : file[m].size # Bad}}
             sizes == {e.size : e \in usable}
             enough == {s \in sizes : s >= size}
             wanted == IF enough # {} THEN Min(enough) ELSE Max(sizes)
             Fits(m) == {e \in usable : e.size = wanted /\ e.type = type /\ e.mode = m}
             fitting == IF Fits(mode) # {} THEN Fits(mode) ELSE Fits("normal")
             found == IF best = {} THEN NoEntry ELSE CHOOSE e \in best : TRUE
  <1>1. /\ DOMAIN nodes = {m \in DOMAIN file : file[m].size # Bad /\ Entries(file[m]) # {}}
        /\ \A m \in DOMAIN nodes : nodes[m].size = file[m].size /\ nodes[m].entries = Entries(file[m])
    BY DEF LoadIconList
  <1>2. \A m \in DOMAIN file : \A e \in Entries(file[m]) : e.size = file[m].size
    BY DEF Entries, LoadIcon
  <1>3. \A e \in usable : \E m \in DOMAIN nodes : e \in Entries(file[m]) /\ e.size = nodes[m].size
    BY <1>1, <1>2
  <1>4. \A m \in DOMAIN nodes : Entries(file[m]) # {} /\ Entries(file[m]) \subseteq usable
    BY <1>1
  <1>5. sizes = {nodes[m].size : m \in DOMAIN nodes}
    <2>1. ASSUME NEW m \in DOMAIN nodes PROVE nodes[m].size \in sizes
      <3>1. PICK e \in Entries(file[m]) : TRUE
        BY <1>4
      <3> QED BY <1>1, <1>2, <1>4, <3>1
    <2> QED BY <1>3, <2>1
  <1>6. TryMatchIcon(nodes, size, type, mode, FALSE, TRUE) = IF IsEmpty(nodes) THEN NoEntry ELSE found
    BY DEF TryMatchIcon
  <1>7. RightMatch(file, Image(TryMatchIcon(nodes, size, type, mode, FALSE, TRUE), 1), size, type, mode) =
            (Image(TryMatchIcon(nodes, size, type, mode, FALSE, TRUE), 1) =
                IF sizes = {} \/ fitting = {} THEN NoEntry ELSE Image(CHOOSE e \in fitting : TRUE, 1))
    BY DEF RightMatch
  <1>8. CASE IsEmpty(nodes)
    <2>1. sizes = {}
      BY <1>5, <1>8 DEF IsEmpty
    <2> QED BY <1>6, <1>7, <1>8, <2>1 DEF Image
  <1>9. CASE ~IsEmpty(nodes)
    <2>1. /\ n \in DOMAIN nodes
          /\ \/ nodes[n].size >= size /\ \A m \in DOMAIN nodes :
                   nodes[m].size >= size => nodes[n].size <= nodes[m].size
             \/ \A m \in DOMAIN nodes : nodes[m].size < size /\ nodes[m].size <= nodes[n].size
      BY <1>9, NodeIs
    <2>2. sizes \subseteq Nat /\ nodes[n].size \in sizes
      BY <1>1, <1>5, <2>1 DEF InOrder
    <2> HIDE DEF n, neighbor
    <2>3. wanted = nodes[n].size
      <3>1. CASE enough # {}
        <4>1. Min(enough) \in enough /\ \A s \in enough : Min(enough) <= s
          BY <2>2, <3>1, LeastIs
        <4>2. PICK m \in DOMAIN nodes : nodes[m].size = Min(enough) /\ nodes[m].size >= size
          BY <1>5, <4>1
        <4>3. nodes[n].size >= size /\ nodes[n].size <= nodes[m].size
          BY <1>5, <2>1, <2>2, <4>2
        <4>4. Min(enough) <= nodes[n].size
          BY <2>2, <4>1, <4>3
        <4>5. Min(enough) \in Nat
          BY <2>2, <4>1
        <4>6. nodes[n].size \in Nat /\ nodes[n].size <= Min(enough)
          BY <2>2, <4>2, <4>3
        <4>7. Min(enough) = nodes[n].size
          <5> HIDE DEF enough
          <5> QED BY <4>4, <4>5, <4>6
        <4> QED BY <3>1, <4>7
      <3>2. CASE enough = {}
        <4>1. \A s \in sizes : s <= nodes[n].size
          BY <1>5, <2>1, <2>2, <3>2
        <4>2. \E x \in sizes : \A y \in sizes : x >= y
          BY <2>2, <4>1
        <4>3. Max(sizes) \in sizes /\ \A y \in sizes : Max(sizes) >= y
          BY <4>2 DEF Max
        <4>4. Max(sizes) \in Nat /\ nodes[n].size \in Nat
          BY <2>2, <4>3
        <4>5. Max(sizes) = nodes[n].size
          <5>1. Max(sizes) <= nodes[n].size /\ Max(sizes) >= nodes[n].size
            BY <2>2, <4>1, <4>3
          <5> HIDE DEF sizes
          <5> QED BY <4>4, <5>1
        <4> QED BY <3>2, <4>5
      <3> QED BY <3>1, <3>2
    <2>4. {e \in usable : e.size = wanted} = Entries(file[n])
      <3>1. ASSUME NEW m \in DOMAIN nodes, nodes[m].size = nodes[n].size PROVE m = n
        <4>1. m \in Nat /\ n \in Nat /\ ~(m < n) /\ ~(n < m)
          BY <1>1, <2>1, <3>1 DEF InOrder
        <4> QED BY <4>1
      <3>2. ASSUME NEW e \in usable, e.size = wanted PROVE e \in Entries(file[n])
        BY <1>3, <2>3, <3>1, <3>2
      <3>3. ASSUME NEW e \in Entries(file[n]) PROVE e \in usable /\ e.size = wanted
        BY <1>1, <1>2, <1>4, <2>1, <2>3
      <3> HIDE DEF usable, wanted
      <3> QED BY <3>2, <3>3
    <2> DEFINE E == Entries(file[n])
    <2>5. \A m : Fits(m) = {e \in E : e.type = type /\ e.mode = m}
      BY <2>4
    <2>6. best = {e \in E : W(e) > 0 /\ \A o \in E : W(e) >= W(o)}
      BY <1>1, <2>1
    <2> HIDE DEF E, best, usable, wanted, Fits
    <2>7. best = fitting
      BY <2>5, <2>6 DEF Weight
    <2>8. sizes # {}
      BY <2>2
    <2> HIDE DEF fitting, sizes
    <2> QED BY <1>6, <1>7, <1>9, <2>7, <2>8 DEF Image
  <1> QED BY <1>8, <1>9

-----------------------------------------------------------------------------
(* The types.                                                                 *)
FilePaths == IconPlaces \cup {NoPath}
DciEngines == [kind : {"dci"}, theme : Themes, file : FilePaths]
BuiltinEngines == [kind : {"builtin"}, key : LookTypes, ready : BOOLEAN,
                   loaded : LookTypes \cup {None}, follows : BOOLEAN]
OtherEngines == {NoEngine, [kind |-> "xdg"], [kind |-> "qt"]}
Engines == DciEngines \cup BuiltinEngines \cup OtherEngines
ProxyEngines == [theme : Themes \cup {None}, ignoreDci : BOOLEAN, engine : Engines, copy : BOOLEAN]

Lookups == BOOLEAN \X Themes

IconTypes ==
    /\ iconTheme \in Themes /\ themeType \in LookTypes
    /\ icons \in [Icons -> ProxyEngines \cup {NoIcon}]
    /\ DOMAIN paths \subseteq Lookups /\ \A q \in DOMAIN paths : paths[q] \in FilePaths
    /\ early \in BOOLEAN

(* What an icon's engine rests on: look-ups P whose answers do not change any *)
(* more.  A DCI engine's file is the one of its theme.                        *)
EngineKnown(P, x) ==
    x.engine # NoEngine =>
        /\ x.engine.kind = "dci" =>
              \E own \in BOOLEAN : <<own, x.theme>> \in DOMAIN P /\ P[<<own, x.theme>>] # NoPath
        /\ x.engine.kind # "dci" =>
              \/ x.ignoreDci \/ x.copy
              \/ <<TRUE, x.theme>> \in DOMAIN P /\ IsEmpty(Nodes(P[<<TRUE, x.theme>>]))
              \/ <<FALSE, x.theme>> \in DOMAIN P /\ P[<<FALSE, x.theme>>] = NoPath

FileKnown(P, e) ==
    e.kind = "dci" => <<TRUE, e.theme>> \in DOMAIN P /\ e.file = P[<<TRUE, e.theme>>]

(* A built-in engine that is not a copy has loaded what its key is for.       *)
LoadedByKey(x) ==
    x.engine.kind = "builtin" /\ ~x.copy =>
        /\ x.engine.ready /\ x.engine.follows
        /\ x.engine.loaded = IF x.engine.key \in builtin THEN x.engine.key ELSE None

ProxyOK(P, x) == EngineKnown(P, x) /\ FileKnown(P, x.engine) /\ LoadedByKey(x)

(* A cached pixmap is the one its key is for, unless one was asked early.     *)
Rendered(file, type, size, mode) ==
    [kind |-> "dci", file |-> file,
     image |-> Image(TryMatchIcon(Nodes(file), size, type, mode, FALSE, TRUE), 1)]

PixmapsRight ==
    ~early => \A t, type, size, mode :
        <<t, type, size, mode>> \in DOMAIN pixmaps =>
            /\ <<TRUE, t>> \in DOMAIN paths
            /\ pixmaps[<<t, type, size, mode>>] = Rendered(paths[<<TRUE, t>>], type, size, mode)

IconsOK == \A i \in Icons : icons[i] # NoIcon => ProxyOK(paths, icons[i])

IconInv == IconTypes /\ IconsOK /\ PixmapsRight /\ PicturesAreRight

(* What is looked up is a place or nothing.                                   *)
LEMMA FilesFound == \A own \in BOOLEAN, t \in Themes : FindDciIconFile(own, t) \in FilePaths
  <1> SUFFICES ASSUME NEW own \in BOOLEAN, NEW t \in Themes PROVE FindDciIconFile(own, t) \in FilePaths
    OBVIOUS
  <1> DEFINE order == SearchOrder(own, t)
             found == {n \in DOMAIN order : order[n] \in files}
  <1>1. /\ OwnPlace(t) \in IconPlaces /\ ThemePlace(t) \in IconPlaces
        /\ PlainPlace \in IconPlaces /\ BuiltInPlace \in IconPlaces
    BY DEF IconPlaces
  <1>2. order \in Seq(IconPlaces)
    BY <1>1 DEF SearchOrder
  <1> HIDE DEF order
  <1>3. FindDciIconFile(own, t) = IF found = {} THEN NoPath ELSE order[Min(found)]
    BY DEF FindDciIconFile, order
  <1>4. found # {} => Min(found) \in DOMAIN order
    BY <1>2, LeastIs
  <1> QED BY <1>2, <1>3, <1>4 DEF FilePaths

(* Look-ups L are added to those that are known.                              *)
LEMMA CachedIs ==
    ASSUME IconTypes, NEW L \in SUBSET Lookups
    PROVE  LET P == Cached(L) IN
           /\ DOMAIN P = DOMAIN paths \cup L /\ DOMAIN P \subseteq Lookups
           /\ \A q \in DOMAIN P : P[q] \in FilePaths
           /\ \A q \in DOMAIN paths : P[q] = paths[q]
           /\ \A own \in BOOLEAN, t \in Themes : <<own, t>> \in L => P[<<own, t>>] = PathOf(own, t)
  <1> DEFINE P == Cached(L)
  <1>1. DOMAIN P = DOMAIN paths \cup L /\ DOMAIN P \subseteq Lookups
    BY DEF Cached, IconTypes
  <1>2. \A q \in DOMAIN P : P[q] = IF q \in DOMAIN paths THEN paths[q] ELSE FindDciIconFile(q[1], q[2])
    BY DEF Cached
  <1>3. \A q \in Lookups : FindDciIconFile(q[1], q[2]) \in FilePaths
    BY FilesFound DEF Lookups
  <1> HIDE DEF P
  <1>4. \A own \in BOOLEAN, t \in Themes : <<own, t>> \in L => P[<<own, t>>] = PathOf(own, t)
    BY <1>1, <1>2 DEF PathOf
  <1>5. \A q \in DOMAIN P : P[q] \in FilePaths
    BY <1>1, <1>2, <1>3 DEF IconTypes
  <1> QED BY <1>1, <1>2, <1>4, <1>5 DEF P

(* What was known stays known.                                                *)
LEMMA KnowledgeKept ==
    ASSUME NEW P, NEW Q, DOMAIN P \subseteq DOMAIN Q, \A q \in DOMAIN P : Q[q] = P[q]
    PROVE  /\ \A x : ProxyOK(P, x) => ProxyOK(Q, x)
           /\ \A e : FileKnown(P, e) => FileKnown(Q, e)
  BY DEF ProxyOK, EngineKnown, FileKnown

-----------------------------------------------------------------------------
(* The engines that are made are known by the look-up they cost.              *)
LEMMA DciEngineIs ==
    ASSUME IconTypes, NEW P, <<TRUE, iconTheme>> \in DOMAIN P,
           P[<<TRUE, iconTheme>>] = PathOf(TRUE, iconTheme), P[<<TRUE, iconTheme>>] \in FilePaths
    PROVE  LET e == DciEngine(iconTheme) IN
           e \in DciEngines /\ e.kind = "dci" /\ e.theme = iconTheme /\ FileKnown(P, e)
  BY DEF DciEngine, DciEngines, FromTheme, FileKnown, IconTypes

LEMMA EnginesDiffer ==
    /\ \A e \in DciEngines : e.kind = "dci" /\ e # NoEngine
    /\ \A e \in BuiltinEngines : e.kind = "builtin" /\ e # NoEngine
    /\ \A e \in OtherEngines : e.kind \notin {"dci", "builtin"}
  BY DEF DciEngines, BuiltinEngines, OtherEngines, NoEngine, None

LEMMA CreatedIs ==
    ASSUME IconTypes, NEW ignoreDci \in BOOLEAN
    PROVE  LET e == CreateEngine(iconTheme, ignoreDci) IN
           \/ e = DciEngine(iconTheme) /\ ~ignoreDci /\ ~IsEmpty(Nodes(FromTheme(iconTheme)))
           \/ /\ e = BuiltinEngine(themeType) /\ e \in BuiltinEngines /\ themeType \in builtin
              /\ ignoreDci \/ IsEmpty(Nodes(FromTheme(iconTheme)))
           \/ e \in OtherEngines /\ (ignoreDci \/ IsEmpty(Nodes(FromTheme(iconTheme))))
  BY DEF CreateEngine, BuiltinEngine, BuiltinEngines, OtherEngines, IconTypes, LookTypes

LEMMA NoNodes == IsEmpty(Nodes(NoPath))
  <1>1. DOMAIN <<>> = {}
    OBVIOUS
  <1> QED BY <1>1 DEF Nodes, IsEmpty

(* What ensureEngine leaves: an engine that is known, whatever was there.     *)
LEMMA EnsuredIs ==
    ASSUME IconTypes, NEW x \in ProxyEngines, ProxyOK(paths, x),
           NEW L \in SUBSET Lookups, EnsureLookups(x) \subseteq L, NEW P, P = Cached(L)
    PROVE  Ensured(x) \in ProxyEngines /\ ProxyOK(P, Ensured(x)) /\ Ensured(x).copy = x.copy
  <1> DEFINE t == iconTheme
             e == CreateEngine(t, x.ignoreDci)
  <1>1. t \in Themes
    BY DEF IconTypes
  <1>2. /\ DOMAIN P = DOMAIN paths \cup L
        /\ \A q \in DOMAIN P : P[q] \in FilePaths
        /\ \A q \in DOMAIN paths : P[q] = paths[q]
        /\ \A own \in BOOLEAN : <<own, t>> \in L => P[<<own, t>>] = PathOf(own, t)
    BY <1>1, CachedIs
  <1>3. ProxyOK(P, x)
    BY <1>2, KnowledgeKept
  <1>4. x = [theme |-> x.theme, ignoreDci |-> x.ignoreDci, engine |-> x.engine, copy |-> x.copy]
        /\ x.ignoreDci \in BOOLEAN /\ x.copy \in BOOLEAN /\ x.engine \in Engines
    BY DEF ProxyEngines
  <1>5. CASE UpToDate(x) \/ GivenUp(x)
    BY <1>3, <1>5 DEF Ensured
  <1>6. CASE ~UpToDate(x) /\ ~GivenUp(x) /\ x.engine # NoEngine /\ KeepsEngine(x.engine, t)
    <2> DEFINE y == [theme |-> t, ignoreDci |-> x.ignoreDci, engine |-> x.engine, copy |-> x.copy]
    <2>1. Ensured(x) = y
      BY <1>4, <1>6 DEF Ensured
    <2>2. y \in ProxyEngines
      BY <1>1, <1>4 DEF ProxyEngines
    <2>3. P[<<FALSE, t>>] = PathOf(FALSE, t) /\ <<FALSE, t>> \in DOMAIN P
      BY <1>2, <1>6 DEF EnsureLookups
    <2>4. y.engine.kind = "dci" <=> P[<<FALSE, t>>] # NoPath
      BY <1>6, <2>3 DEF KeepsEngine
    <2>5. EngineKnown(P, y)
      BY <2>3, <2>4 DEF EngineKnown
    <2>6. FileKnown(P, y.engine) /\ LoadedByKey(y)
      BY <1>3 DEF ProxyOK, LoadedByKey
    <2> QED BY <2>1, <2>2, <2>5, <2>6 DEF ProxyOK
  <1>7. CASE ~UpToDate(x) /\ ~GivenUp(x) /\ ~(x.engine # NoEngine /\ KeepsEngine(x.engine, t))
    <2> DEFINE y == [theme |-> IF e = NoEngine THEN x.theme ELSE t, ignoreDci |-> x.ignoreDci,
                     engine |-> e, copy |-> x.copy]
    <2>1. Ensured(x) = y
      BY <1>4, <1>7 DEF Ensured
    <2>2. ~x.ignoreDci => /\ <<TRUE, t>> \in DOMAIN P /\ P[<<TRUE, t>>] = PathOf(TRUE, t)
                          /\ P[<<TRUE, t>>] \in FilePaths
      BY <1>2, <1>7 DEF EnsureLookups, Creates
    <2>3. CASE e = DciEngine(t) /\ ~x.ignoreDci /\ ~IsEmpty(Nodes(FromTheme(t)))
      <3>1. e \in DciEngines /\ e.kind = "dci" /\ e.theme = t /\ FileKnown(P, e)
        BY <2>2, <2>3, DciEngineIs
      <3>2. e # NoEngine
        BY <3>1, EnginesDiffer
      <3>3. P[<<TRUE, t>>] # NoPath
        BY <2>2, <2>3, NoNodes DEF FromTheme
      <3> HIDE DEF e
      <3>4. y \in ProxyEngines
        BY <1>1, <1>4, <3>1, <3>2 DEF ProxyEngines, Engines
      <3>5. EngineKnown(P, y) /\ LoadedByKey(y)
        BY <2>2, <2>3, <3>1, <3>2, <3>3 DEF EngineKnown, LoadedByKey
      <3> QED BY <2>1, <3>1, <3>4, <3>5 DEF ProxyOK
    <2>4. CASE /\ e = BuiltinEngine(themeType) /\ e \in BuiltinEngines /\ themeType \in builtin
               /\ x.ignoreDci \/ IsEmpty(Nodes(FromTheme(t)))
      <3>1. e.kind = "builtin" /\ e # NoEngine
        BY <2>4, EnginesDiffer
      <3>2. e.ready /\ e.follows /\ e.key = themeType /\ e.loaded = themeType
        BY <2>4 DEF BuiltinEngine
      <3> HIDE DEF e
      <3>3. y \in ProxyEngines
        BY <1>1, <1>4, <2>4, <3>1 DEF ProxyEngines, Engines
      <3>4. EngineKnown(P, y)
        BY <2>2, <2>4, <3>1 DEF EngineKnown, FromTheme
      <3>5. FileKnown(P, y.engine) /\ LoadedByKey(y)
        BY <2>4, <3>1, <3>2 DEF FileKnown, LoadedByKey
      <3> QED BY <2>1, <3>3, <3>4, <3>5 DEF ProxyOK
    <2>5. CASE e \in OtherEngines /\ (x.ignoreDci \/ IsEmpty(Nodes(FromTheme(t))))
      <3>1. e.kind \notin {"dci", "builtin"}
        BY <2>5, EnginesDiffer
      <3> HIDE DEF e
      <3>2. y \in ProxyEngines
        BY <1>1, <1>4, <2>5 DEF ProxyEngines, Engines
      <3>3. EngineKnown(P, y)
        BY <2>2, <2>5, <3>1 DEF EngineKnown, FromTheme
      <3>4. FileKnown(P, y.engine) /\ LoadedByKey(y)
        BY <3>1 DEF FileKnown, LoadedByKey
      <3> QED BY <2>1, <3>2, <3>3, <3>4 DEF ProxyOK
    <2>6. Ensured(x).copy = x.copy
      BY <2>1
    <2> QED BY <1>4, <2>3, <2>4, <2>5, <2>6, CreatedIs
  <1> QED BY <1>5, <1>6, <1>7

(* A new icon has no engine, which all of this is true of.                    *)
LEMMA NewIs ==
    ASSUME NEW ignoreDci \in BOOLEAN
    PROVE  LET x == [theme |-> None, ignoreDci |-> ignoreDci, engine |-> NoEngine, copy |-> FALSE]
           IN x \in ProxyEngines /\ \A P : ProxyOK(P, x)
  <1>1. NoEngine.kind \notin {"dci", "builtin"} /\ NoEngine \in Engines
    BY EnginesDiffer DEF OtherEngines, Engines
  <1> QED BY <1>1 DEF ProxyEngines, ProxyOK, EngineKnown, FileKnown, LoadedByKey

(* The copy of an icon.                                                       *)
LEMMA CopyIs ==
    ASSUME NEW x \in ProxyEngines, NEW P, ProxyOK(P, x)
    PROVE  LET y == [theme |-> x.theme, ignoreDci |-> FALSE,
                     engine |-> CopyEngine(x.engine), copy |-> TRUE]
           IN y \in ProxyEngines /\ ProxyOK(P, y)
  <1> DEFINE e == CopyEngine(x.engine)
             y == [theme |-> x.theme, ignoreDci |-> FALSE, engine |-> e, copy |-> TRUE]
  <1>1. x.engine \in Engines /\ x.theme \in Themes \cup {None}
    BY DEF ProxyEngines
  <1>2. e \in Engines /\ e.kind = x.engine.kind /\ (e.kind = "dci" => e = x.engine)
        /\ (e # NoEngine => x.engine # NoEngine)
    <2>1. CASE x.engine.kind = "builtin"
      <3>1. x.engine \in BuiltinEngines
        BY <1>1, <2>1, EnginesDiffer DEF Engines
      <3>2. e \in BuiltinEngines
        BY <2>1, <3>1 DEF CopyEngine, BuiltinEngines
      <3> QED BY <2>1, <3>1, <3>2, EnginesDiffer DEF Engines
    <2>2. CASE x.engine.kind # "builtin"
      BY <1>1, <2>2 DEF CopyEngine
    <2> QED BY <2>1, <2>2
  <1> HIDE DEF e
  <1>3. y \in ProxyEngines
    BY <1>1, <1>2 DEF ProxyEngines
  <1>4. ProxyOK(P, y)
    BY <1>2 DEF ProxyOK, EngineKnown, FileKnown, LoadedByKey
  <1> QED BY <1>3, <1>4 DEF e

(* A built-in engine that is used.                                            *)
LEMMA LoadedIs ==
    ASSUME IconTypes, NEW x \in ProxyEngines, NEW P, ProxyOK(P, x), x.engine.kind = "builtin"
    PROVE  LET e == EnsureLoaded(x.engine)
               y == [x EXCEPT !.engine = e]
           IN /\ y \in ProxyEngines /\ ProxyOK(P, y) /\ y.engine = e /\ y.copy = x.copy
              /\ e.kind = "builtin"
              /\ ~x.copy => e.loaded = IF themeType \in builtin THEN themeType ELSE None
  <1> DEFINE e == EnsureLoaded(x.engine)
             y == [theme |-> x.theme, ignoreDci |-> x.ignoreDci, engine |-> e, copy |-> x.copy]
  <1>1. /\ [x EXCEPT !.engine = e] = y
        /\ x.engine \in Engines /\ x.theme \in Themes \cup {None}
        /\ x.ignoreDci \in BOOLEAN /\ x.copy \in BOOLEAN
    BY DEF ProxyEngines
  <1>2. x.engine \in BuiltinEngines
    BY <1>1, EnginesDiffer DEF Engines
  <1>3. e \in BuiltinEngines
    <2>1. themeType \in LookTypes
      BY DEF IconTypes
    <2> QED BY <1>2, <2>1 DEF EnsureLoaded, BuiltinEngines
  <1>4. /\ ~x.copy => /\ e.ready /\ e.follows /\ e.key = themeType
                      /\ e.loaded = IF themeType \in builtin THEN themeType ELSE None
    BY <1>2 DEF ProxyOK, LoadedByKey, EnsureLoaded, BuiltinEngines
  <1>5. e.kind = "builtin" /\ e # NoEngine /\ x.engine # NoEngine
    BY <1>2, <1>3, EnginesDiffer
  <1> HIDE DEF e
  <1>6. y \in ProxyEngines
    BY <1>1, <1>3 DEF ProxyEngines, Engines
  <1>7. ProxyOK(P, y)
    BY <1>4, <1>5 DEF ProxyOK, EngineKnown, FileKnown, LoadedByKey
  <1> QED BY <1>1, <1>4, <1>5, <1>6, <1>7 DEF e

(* A DCI engine that is used follows the theme, if it has not yet.            *)
LEMMA FollowsIs ==
    ASSUME IconTypes, NEW x \in ProxyEngines, NEW P, ProxyOK(P, x), x.engine.kind = "dci",
           x.engine.theme # iconTheme =>
               /\ <<TRUE, iconTheme>> \in DOMAIN P /\ P[<<TRUE, iconTheme>>] = PathOf(TRUE, iconTheme)
               /\ P[<<TRUE, iconTheme>>] \in FilePaths
    PROVE  LET e == EnsureIconTheme(x.engine)
               y == [x EXCEPT !.engine = e]
           IN /\ y \in ProxyEngines /\ ProxyOK(P, y) /\ y.engine = e /\ y.copy = x.copy
              /\ e.kind = "dci" /\ e.theme = iconTheme /\ FileKnown(P, e)
              /\ (e = x.engine <=> x.engine.theme = iconTheme)
  <1> DEFINE e == EnsureIconTheme(x.engine)
             y == [theme |-> x.theme, ignoreDci |-> x.ignoreDci, engine |-> e, copy |-> x.copy]
  <1>1. /\ [x EXCEPT !.engine = e] = y
        /\ x.engine \in Engines /\ x.theme \in Themes \cup {None}
        /\ x.ignoreDci \in BOOLEAN /\ x.copy \in BOOLEAN
    BY DEF ProxyEngines
  <1>2. x.engine \in DciEngines
    BY <1>1, EnginesDiffer DEF Engines
  <1>3. e \in DciEngines /\ e.kind = "dci" /\ e.theme = iconTheme /\ FileKnown(P, e)
    BY <1>2, DciEngineIs DEF EnsureIconTheme, ProxyOK
  <1>4. e = x.engine <=> x.engine.theme = iconTheme
    BY <1>3 DEF EnsureIconTheme
  <1>5. e # NoEngine /\ x.engine # NoEngine
    BY <1>2, <1>3, EnginesDiffer
  <1> HIDE DEF e
  <1>6. y \in ProxyEngines
    BY <1>1, <1>3 DEF ProxyEngines, Engines
  <1>7. ProxyOK(P, y)
    BY <1>3, <1>5 DEF ProxyOK, EngineKnown, LoadedByKey
  <1> QED BY <1>1, <1>3, <1>4, <1>6, <1>7 DEF e

-----------------------------------------------------------------------------
(* The steps.  Look-ups L are added, and an icon becomes y.                   *)
LEMMA IconsKept ==
    ASSUME IconInv, NEW L \in SUBSET Lookups, paths' = Cached(L),
           NEW i \in Icons, NEW y \in ProxyEngines, ProxyOK(paths', y),
           icons' = [icons EXCEPT ![i] = y],
           UNCHANGED <<iconTheme, themeType, builtin>>, early' \in BOOLEAN
    PROVE  IconTypes' /\ IconsOK' /\ icons'[i] = y
  <1>1. /\ DOMAIN paths' \subseteq Lookups /\ DOMAIN paths \subseteq DOMAIN paths'
        /\ \A q \in DOMAIN paths' : paths'[q] \in FilePaths
        /\ \A q \in DOMAIN paths : paths'[q] = paths[q]
    BY CachedIs DEF IconInv
  <1>2. icons' \in [Icons -> ProxyEngines \cup {NoIcon}] /\ icons'[i] = y
        /\ \A j \in Icons \ {i} : icons'[j] = icons[j]
    BY DEF IconInv, IconTypes
  <1>3. IconTypes'
    BY <1>1, <1>2 DEF IconInv, IconTypes
  <1>4. \A x : ProxyOK(paths, x) => ProxyOK(paths', x)
    BY <1>1, KnowledgeKept
  <1>5. \A j \in Icons : icons'[j] # NoIcon => ProxyOK(paths', icons'[j])
    BY <1>2, <1>4 DEF IconInv, IconsOK
  <1>6. \A x : LoadedByKey(x)' <=> LoadedByKey(x)
    BY DEF LoadedByKey
  <1>7. \A x : ProxyOK(paths, x)' <=> ProxyOK(paths', x)
    BY <1>6 DEF ProxyOK, EngineKnown, FileKnown
  <1>8. IconsOK'
    BY <1>5, <1>7 DEF IconsOK
  <1> QED BY <1>2, <1>3, <1>8

LEMMA PixmapsKept ==
    ASSUME IconInv, NEW L \in SUBSET Lookups, paths' = Cached(L), UNCHANGED pixmaps, early => early'
    PROVE  PixmapsRight'
  <1>1. DOMAIN paths \subseteq DOMAIN paths' /\ \A q \in DOMAIN paths : paths'[q] = paths[q]
    BY CachedIs DEF IconInv
  <1> SUFFICES ASSUME ~early', NEW t, NEW type, NEW size, NEW mode,
                      <<t, type, size, mode>> \in DOMAIN pixmaps'
               PROVE  /\ <<TRUE, t>> \in DOMAIN paths'
                      /\ pixmaps'[<<t, type, size, mode>>] = Rendered(paths'[<<TRUE, t>>], type, size, mode)
    BY DEF PixmapsRight
  <1>2. ~early /\ pixmaps' = pixmaps
    BY DEF IconInv, IconTypes
  <1>3. /\ <<TRUE, t>> \in DOMAIN paths
        /\ pixmaps[<<t, type, size, mode>>] = Rendered(paths[<<TRUE, t>>], type, size, mode)
    BY <1>2 DEF IconInv, PixmapsRight
  <1> QED BY <1>1, <1>2, <1>3

LEMMA LookupsAre ==
    ASSUME IconTypes, NEW x PROVE EnsureLookups(x) \in SUBSET Lookups
  <1>1. <<FALSE, iconTheme>> \in Lookups /\ <<TRUE, iconTheme>> \in Lookups
    BY DEF Lookups, IconTypes
  <1>2. EnsureLookups(x) \subseteq {<<FALSE, iconTheme>>, <<TRUE, iconTheme>>}
    BY DEF EnsureLookups
  <1> QED BY <1>1, <1>2

LEMMA InitialIcons == IconInit => IconInv
  <1> SUFFICES ASSUME IconInit PROVE IconInv
    OBVIOUS
  <1>1. DOMAIN <<>> = {}
    OBVIOUS
  <1>2. IconTypes
    BY <1>1 DEF IconInit, IconTypes, LookTypes
  <1>3. IconsOK /\ PixmapsRight /\ PicturesAreRight
    BY <1>1 DEF IconInit, IconsOK, PixmapsRight, PicturesAreRight
  <1> QED BY <1>2, <1>3 DEF IconInv

LEMMA NewIconStep ==
    ASSUME IconInv, NEW i \in Icons, NEW ignoreDci \in BOOLEAN, NewIcon(i, ignoreDci)
    PROVE  IconInv'
  <1> DEFINE x == [theme |-> None, ignoreDci |-> ignoreDci, engine |-> NoEngine, copy |-> FALSE]
  <1>1. /\ icons' = [icons EXCEPT ![i] = Ensured(x)] /\ paths' = Cached(EnsureLookups(x))
        /\ shown' = NoPicture /\ UNCHANGED <<iconTheme, themeType, builtin, pixmaps, early>>
    BY DEF NewIcon, installation, themes
  <1>2. x \in ProxyEngines /\ ProxyOK(paths, x)
    BY NewIs
  <1>3. EnsureLookups(x) \in SUBSET Lookups
    BY LookupsAre DEF IconInv
  <1> HIDE DEF x
  <1>4. Ensured(x) \in ProxyEngines /\ ProxyOK(paths', Ensured(x))
    BY <1>1, <1>2, <1>3, EnsuredIs DEF IconInv
  <1>5. early \in BOOLEAN
    BY DEF IconInv, IconTypes
  <1>6. IconTypes' /\ IconsOK'
    BY <1>1, <1>3, <1>4, <1>5, IconsKept
  <1>7. PixmapsRight' /\ PicturesAreRight'
    BY <1>1, <1>3, PixmapsKept DEF PicturesAreRight
  <1> QED BY <1>6, <1>7 DEF IconInv

LEMMA CopyIconStep ==
    ASSUME IconInv, NEW i \in Icons, NEW j \in Icons, CopyIcon(i, j)
    PROVE  IconInv'
  <1> DEFINE x == [theme |-> icons[i].theme, ignoreDci |-> FALSE,
                   engine |-> CopyEngine(icons[i].engine), copy |-> TRUE]
  <1>1. /\ icons' = [icons EXCEPT ![j] = Ensured(x)] /\ paths' = Cached(EnsureLookups(x))
        /\ shown' = NoPicture /\ UNCHANGED <<iconTheme, themeType, builtin, pixmaps, early>>
    BY DEF CopyIcon, installation, themes
  <1>2. icons[i] \in ProxyEngines /\ ProxyOK(paths, icons[i])
    BY DEF CopyIcon, IconInv, IconTypes, IconsOK
  <1>3. x \in ProxyEngines /\ ProxyOK(paths, x)
    BY <1>2, CopyIs
  <1>4. EnsureLookups(x) \in SUBSET Lookups
    BY LookupsAre DEF IconInv
  <1> HIDE DEF x
  <1>5. Ensured(x) \in ProxyEngines /\ ProxyOK(paths', Ensured(x))
    BY <1>1, <1>3, <1>4, EnsuredIs DEF IconInv
  <1>6. early \in BOOLEAN
    BY DEF IconInv, IconTypes
  <1>7. IconTypes' /\ IconsOK'
    BY <1>1, <1>4, <1>5, <1>6, IconsKept
  <1>8. PixmapsRight' /\ PicturesAreRight'
    BY <1>1, <1>4, PixmapsKept DEF PicturesAreRight
  <1> QED BY <1>7, <1>8 DEF IconInv

(* Steps that leave the caches and the icons alone, or lose one.              *)
LEMMA OtherSteps ==
    ASSUME IconInv, shown' = NoPicture, UNCHANGED <<builtin, paths, pixmaps, early>>,
           iconTheme' \in Themes, themeType' \in LookTypes,
           \/ UNCHANGED icons
           \/ \E i \in Icons : icons' = [icons EXCEPT ![i] = NoIcon]
    PROVE  IconInv'
  <1>1. IconTypes'
    BY DEF IconInv, IconTypes
  <1>2. \A j \in Icons : icons'[j] = icons[j] \/ icons'[j] = NoIcon
    BY DEF IconInv, IconTypes
  <1>3. IconsOK'
    BY <1>2 DEF IconInv, IconsOK, ProxyOK, EngineKnown, FileKnown, LoadedByKey
  <1>4. PixmapsRight'
    BY DEF IconInv, PixmapsRight
  <1>5. PicturesAreRight'
    BY DEF PicturesAreRight
  <1> QED BY <1>1, <1>3, <1>4, <1>5 DEF IconInv

(* What is rendered of a file is what the format asks for.                    *)
LEMMA RenderedRight ==
    ASSUME NEW file \in IconPlaces, NEW type, NEW size \in Nat, NEW mode
    PROVE  RightMatch(DciFiles[file], Rendered(file, type, size, mode).image, size, type, mode)
  <1>1. InOrder(DciFiles[file])
    BY IconThemeAssumption
  <1>2. file # NoPath
    <2>1. \E a, b : file = <<a, b>>
      BY DEF IconPlaces, OwnPlace, ThemePlace, PlainPlace, BuiltInPlace
    <2>2. \A a, b : <<a, b>> # <<>>
      OBVIOUS
    <2> QED BY <2>1, <2>2 DEF NoPath
  <1>3. Nodes(file) = LoadIconList(DciFiles[file])
    BY <1>2 DEF Nodes
  <1>4. Rendered(file, type, size, mode).image =
            Image(TryMatchIcon(LoadIconList(DciFiles[file]), size, type, mode, FALSE, TRUE), 1)
    BY <1>3 DEF Rendered
  <1> QED BY <1>1, <1>4, SearchIsRight

(* The DCI engine that is used: the one that was there, or one that follows.  *)
LEMMA UsedIs ==
    ASSUME IconTypes, NEW x \in ProxyEngines, ProxyOK(paths, x),
           NEW icon, icon = Ensured(x), icon.engine.kind = "dci",
           NEW used \in {icon.engine, EnsureIconTheme(icon.engine)},
           NEW L \in SUBSET Lookups, EnsureLookups(x) \subseteq L,
           used # icon.engine => <<TRUE, iconTheme>> \in L,
           NEW P, P = Cached(L)
    PROVE  LET y == [theme |-> icon.theme, ignoreDci |-> icon.ignoreDci, engine |-> used, copy |-> icon.copy]
           IN /\ icon \in ProxyEngines /\ y \in ProxyEngines /\ ProxyOK(P, y) /\ y.engine = used /\ y.copy = x.copy
              /\ used.kind = "dci" /\ FileKnown(P, used)
              /\ used = EnsureIconTheme(icon.engine) => used.theme = iconTheme
  <1> DEFINE y == [theme |-> icon.theme, ignoreDci |-> icon.ignoreDci, engine |-> used, copy |-> icon.copy]
  <1>1. icon \in ProxyEngines /\ ProxyOK(P, icon) /\ icon.copy = x.copy
    BY EnsuredIs
  <1>2. used = EnsureIconTheme(icon.engine) => used.theme = iconTheme
    BY DEF EnsureIconTheme, DciEngine
  <1>3. CASE used = icon.engine
    <2>1. y = icon
      BY <1>1, <1>3 DEF ProxyEngines
    <2>2. used.kind = "dci" /\ FileKnown(P, used)
      BY <1>1, <1>3 DEF ProxyOK
    <2> QED BY <1>1, <1>2, <1>3, <2>1, <2>2
  <1>4. CASE used # icon.engine /\ used = EnsureIconTheme(icon.engine)
    <2>1. <<TRUE, iconTheme>> \in L /\ iconTheme \in Themes
      BY <1>4 DEF IconTypes
    <2>2. /\ <<TRUE, iconTheme>> \in DOMAIN P /\ P[<<TRUE, iconTheme>>] = PathOf(TRUE, iconTheme)
          /\ P[<<TRUE, iconTheme>>] \in FilePaths
      BY <2>1, CachedIs
    <2>3. icon.engine.kind = "dci"
      OBVIOUS
    <2>4. [icon EXCEPT !.engine = used] = y
      BY <1>1 DEF ProxyEngines
    <2>5. [icon EXCEPT !.engine = EnsureIconTheme(icon.engine)] = y
      BY <1>4, <2>4
    <2> HIDE DEF y
    <2>6. y \in ProxyEngines /\ ProxyOK(P, y) /\ y.engine = used /\ y.copy = icon.copy
          /\ used.kind = "dci" /\ FileKnown(P, used)
      BY <1>1, <1>4, <2>2, <2>3, <2>5, FollowsIs
    <2> QED BY <1>1, <1>2, <2>6 DEF y
  <1> QED BY <1>3, <1>4

(* A DCI picture of the theme's own file is right.                            *)
LEMMA DciShown ==
    ASSUME IconInv, NEW L \in SUBSET Lookups, paths' = Cached(L),
           NEW type, NEW size \in Nat, NEW mode, NEW picture, NEW padded,
           <<TRUE, iconTheme>> \in DOMAIN paths',
           picture.file = paths'[<<TRUE, iconTheme>>],
           ~padded => picture = Rendered(picture.file, type, size, mode), iconTheme' = iconTheme
    PROVE  /\ picture.file = PathOf(TRUE, iconTheme)'
           /\ picture.file # NoPath /\ ~padded =>
                  RightMatch(DciFiles[picture.file], picture.image, size, type, mode)
  <1>1. paths'[<<TRUE, iconTheme>>] \in FilePaths
    BY CachedIs DEF IconInv
  <1>2. ASSUME picture.file # NoPath, ~padded
        PROVE  RightMatch(DciFiles[picture.file], picture.image, size, type, mode)
    <2>1. picture.file \in IconPlaces
      BY <1>1, <1>2 DEF FilePaths
    <2>2. picture.image = Rendered(picture.file, type, size, mode).image
      BY <1>2
    <2>3. RightMatch(DciFiles[picture.file], Rendered(picture.file, type, size, mode).image,
                     size, type, mode)
      BY <2>1, RenderedRight
    <2> QED BY <2>2, <2>3
  <1>3. iconTheme \in Themes
    BY DEF IconInv, IconTypes
  <1>4. PathOf(TRUE, iconTheme)' = IF <<TRUE, iconTheme'>> \in DOMAIN paths' THEN paths'[<<TRUE, iconTheme'>>]
                                  ELSE FindDciIconFile(TRUE, iconTheme)'
    BY DEF PathOf
  <1> QED BY <1>2, <1>4 DEF PathOf

LEMMA DciPixmapStep ==
    ASSUME IconInv, NEW i \in Icons, icons[i] # NoIcon,
           NEW size \in Nat, NEW mode, NEW scaled \in BOOLEAN, DciPixmap(i, size, mode, scaled)
    PROVE  IconInv'
  <1> DEFINE x == icons[i]
             icon == Ensured(x)
             e == IF scaled THEN EnsureIconTheme(icon.engine) ELSE icon.engine
             key == <<e.theme, themeType, size, mode>>
             hit == key \in DOMAIN pixmaps
             used == IF hit THEN e ELSE EnsureIconTheme(e)
             picture == IF hit THEN pixmaps[key] ELSE Render(used, size, mode, FALSE)
             L == EnsureLookups(x) \cup (IF used = icon.engine THEN {} ELSE {<<TRUE, iconTheme>>})
             y == [icon EXCEPT !.engine = used]
  <1>1. /\ icon.engine.kind = "dci"
        /\ icons' = [icons EXCEPT ![i] = y] /\ paths' = Cached(L)
        /\ pixmaps' = IF hit \/ picture.image = NoEntry THEN pixmaps
                      ELSE [k \in DOMAIN pixmaps \cup {key} |-> IF k = key THEN picture ELSE pixmaps[k]]
        /\ early' = (early \/ (~scaled /\ icon.engine.theme # iconTheme))
        /\ Show(i, picture, size, mode, FALSE)
        /\ UNCHANGED <<iconTheme, themeType, builtin>>
    BY DEF DciPixmap, installation, themes
  <1>2. x \in ProxyEngines /\ ProxyOK(paths, x) /\ IconTypes
    BY DEF IconInv, IconTypes, IconsOK
  <1>3. \A f : EnsureIconTheme(EnsureIconTheme(f)) = EnsureIconTheme(f) /\ EnsureIconTheme(f).theme = iconTheme
    BY DEF EnsureIconTheme, DciEngine
  <1>4. used \in {icon.engine, EnsureIconTheme(icon.engine)}
    BY <1>3
  <1>5. ~early' => ~early /\ e.theme = iconTheme /\ used.theme = iconTheme
    BY <1>1, <1>3 DEF EnsureIconTheme
  <1>6. /\ key = <<e.theme, themeType, size, mode>> /\ (hit <=> key \in DOMAIN pixmaps)
        /\ picture = IF hit THEN pixmaps[key] ELSE Render(used, size, mode, FALSE)
        /\ icon = Ensured(x) /\ y = [icon EXCEPT !.engine = used]
        /\ L = EnsureLookups(x) \cup (IF used = icon.engine THEN {} ELSE {<<TRUE, iconTheme>>})
    OBVIOUS
  <1> HIDE DEF icon, e, used, key, hit, picture, x, L, y
  <1>7. /\ L \in SUBSET Lookups /\ y \in ProxyEngines /\ ProxyOK(paths', y)
        /\ y.engine = used /\ y.copy = x.copy /\ used.kind = "dci" /\ FileKnown(paths', used)
    <2>1. /\ paths' = Cached(L) /\ icon.engine.kind = "dci"
          /\ icon = Ensured(x)
          /\ used \in {icon.engine, EnsureIconTheme(icon.engine)}
      BY <1>1, <1>4, <1>6
    <2>2. /\ L \in SUBSET Lookups /\ EnsureLookups(x) \subseteq L
          /\ used # icon.engine => <<TRUE, iconTheme>> \in L
      <3>1. EnsureLookups(x) \in SUBSET Lookups /\ <<TRUE, iconTheme>> \in Lookups
        BY <1>2, LookupsAre DEF Lookups, IconTypes
      <3> QED BY <1>6, <3>1
    <2> DEFINE z == [theme |-> icon.theme, ignoreDci |-> icon.ignoreDci, engine |-> used, copy |-> icon.copy]
    <2>3. /\ icon \in ProxyEngines /\ z \in ProxyEngines /\ ProxyOK(paths', z)
          /\ z.engine = used /\ z.copy = x.copy /\ used.kind = "dci" /\ FileKnown(paths', used)
      BY <1>2, <2>1, <2>2, UsedIs
    <2>4. y = z
      BY <2>3, <1>6 DEF ProxyEngines
    <2> HIDE DEF z
    <2> QED BY <2>2, <2>3, <2>4
  <1>8. early' \in BOOLEAN
    BY <1>1, <1>2 DEF IconTypes
  <1>9. IconTypes' /\ IconsOK' /\ icons'[i] = y
    BY <1>1, <1>7, <1>8, IconsKept
  <1>10. DOMAIN paths \subseteq DOMAIN paths' /\ \A q \in DOMAIN paths : paths'[q] = paths[q]
    BY <1>1, <1>2, <1>7, CachedIs
  <1>11. ASSUME ~early'
         PROVE  /\ <<TRUE, iconTheme>> \in DOMAIN paths'
                /\ picture = Rendered(paths'[<<TRUE, iconTheme>>], themeType, size, mode)
    <2>1. e.theme = iconTheme /\ used.theme = iconTheme /\ PixmapsRight /\ ~early
      BY <1>5, <1>11 DEF IconInv
    <2>2. <<TRUE, iconTheme>> \in DOMAIN paths' /\ used.file = paths'[<<TRUE, iconTheme>>]
      BY <1>7, <2>1 DEF FileKnown
    <2>3. CASE hit
      <3>1. key = <<iconTheme, themeType, size, mode>> /\ key \in DOMAIN pixmaps
        BY <1>6, <2>1, <2>3
      <3>2. \A t, ty, s, m : <<t, ty, s, m>> \in DOMAIN pixmaps =>
                /\ <<TRUE, t>> \in DOMAIN paths
                /\ pixmaps[<<t, ty, s, m>>] = Rendered(paths[<<TRUE, t>>], ty, s, m)
        BY <2>1 DEF PixmapsRight
      <3>3. /\ <<TRUE, iconTheme>> \in DOMAIN paths
            /\ pixmaps[key] = Rendered(paths[<<TRUE, iconTheme>>], themeType, size, mode)
        BY <3>1, <3>2
      <3> QED BY <1>6, <1>10, <2>3, <3>3
    <2>4. CASE ~hit
      BY <1>6, <2>2, <2>4 DEF Render, Rendered
    <2> QED BY <2>3, <2>4
  <1>12. PixmapsRight'
    <2> SUFFICES ASSUME ~early', NEW t, NEW ty, NEW s, NEW m, <<t, ty, s, m>> \in DOMAIN pixmaps'
                 PROVE  /\ <<TRUE, t>> \in DOMAIN paths'
                        /\ pixmaps'[<<t, ty, s, m>>] = Rendered(paths'[<<TRUE, t>>], ty, s, m)
      BY DEF PixmapsRight
    <2>1. CASE <<t, ty, s, m>> \in DOMAIN pixmaps /\ pixmaps'[<<t, ty, s, m>>] = pixmaps[<<t, ty, s, m>>]
      <3>1. /\ <<TRUE, t>> \in DOMAIN paths
            /\ pixmaps[<<t, ty, s, m>>] = Rendered(paths[<<TRUE, t>>], ty, s, m)
        BY <1>5, <2>1 DEF IconInv, PixmapsRight
      <3> QED BY <1>10, <2>1, <3>1
    <2>2. CASE <<t, ty, s, m>> = key /\ pixmaps'[<<t, ty, s, m>>] = picture
      <3>1. t = iconTheme /\ ty = themeType /\ s = size /\ m = mode
        BY <1>5, <1>6, <2>2
      <3> QED BY <1>11, <2>2, <3>1
    <2> QED BY <1>1, <2>1, <2>2
  <1>13. /\ shown'.picture = picture /\ shown'.theme = iconTheme /\ shown'.type = themeType
         /\ shown'.size = size /\ shown'.mode = mode /\ shown'.padded = FALSE
         /\ shown'.kind = "dci"
    BY <1>1, <1>7, <1>9 DEF Show
  <1>14. ASSUME ~early'
         PROVE  /\ picture.file = PathOf(TRUE, iconTheme)'
                /\ picture.file # NoPath =>
                       RightMatch(DciFiles[picture.file], picture.image, size, themeType, mode)
    <2>1. picture.file = paths'[<<TRUE, iconTheme>>]
      BY <1>11, <1>14 DEF Rendered
    <2> QED BY <1>1, <1>7, <1>11, <1>14, <2>1, DciShown
  <1>15. PicturesAreRight'
    BY <1>13, <1>14, <1>1 DEF PicturesAreRight, PathOf
  <1> QED BY <1>9, <1>12, <1>15 DEF IconInv

LEMMA DciPaintStep ==
    ASSUME IconInv, NEW i \in Icons, icons[i] # NoIcon, NEW size \in Nat, NEW mode, DciPaint(i, size, mode)
    PROVE  IconInv'
  <1> DEFINE x == icons[i]
             icon == Ensured(x)
             e == EnsureIconTheme(icon.engine)
             picture == Render(e, size, mode, TRUE)
             L == EnsureLookups(x) \cup (IF e = icon.engine THEN {} ELSE {<<TRUE, iconTheme>>})
             y == [icon EXCEPT !.engine = e]
  <1>1. /\ icon.engine.kind = "dci"
        /\ icons' = [icons EXCEPT ![i] = y] /\ paths' = Cached(L)
        /\ Show(i, picture, size, mode, TRUE)
        /\ UNCHANGED <<iconTheme, themeType, builtin, pixmaps, early>>
    BY DEF DciPaint, installation, themes
  <1>2. x \in ProxyEngines /\ ProxyOK(paths, x) /\ IconTypes
    BY DEF IconInv, IconTypes, IconsOK
  <1>3. /\ picture.file = e.file
        /\ icon = Ensured(x) /\ e = EnsureIconTheme(icon.engine) /\ y = [icon EXCEPT !.engine = e]
        /\ L = EnsureLookups(x) \cup (IF e = icon.engine THEN {} ELSE {<<TRUE, iconTheme>>})
    BY DEF Render
  <1> HIDE DEF icon, e, picture, x, L, y
  <1>4. /\ L \in SUBSET Lookups /\ y \in ProxyEngines /\ ProxyOK(paths', y)
        /\ y.engine = e /\ y.copy = x.copy /\ e.kind = "dci" /\ FileKnown(paths', e)
        /\ e.theme = iconTheme
    <2>1. /\ paths' = Cached(L) /\ icon.engine.kind = "dci"
          /\ icon = Ensured(x)
          /\ e \in {icon.engine, EnsureIconTheme(icon.engine)}
      BY <1>1, <1>3, <1>3
    <2>2. /\ L \in SUBSET Lookups /\ EnsureLookups(x) \subseteq L
          /\ e # icon.engine => <<TRUE, iconTheme>> \in L
      <3>1. EnsureLookups(x) \in SUBSET Lookups /\ <<TRUE, iconTheme>> \in Lookups
        BY <1>2, LookupsAre DEF Lookups, IconTypes
      <3> QED BY <1>3, <3>1
    <2> DEFINE z == [theme |-> icon.theme, ignoreDci |-> icon.ignoreDci, engine |-> e, copy |-> icon.copy]
    <2>3. /\ icon \in ProxyEngines /\ z \in ProxyEngines /\ ProxyOK(paths', z)
          /\ z.engine = e /\ z.copy = x.copy /\ e.kind = "dci" /\ FileKnown(paths', e)
      BY <1>2, <2>1, <2>2, UsedIs
    <2>4. y = z
      BY <2>3, <1>3 DEF ProxyEngines
    <2> HIDE DEF z
    <2>5. e.theme = iconTheme
      BY <1>3 DEF EnsureIconTheme, DciEngine
    <2> QED BY <2>2, <2>3, <2>4, <2>5
  <1>5. early' \in BOOLEAN
    BY <1>1, <1>2 DEF IconTypes
  <1>6. IconTypes' /\ IconsOK' /\ icons'[i] = y
    BY <1>1, <1>4, <1>5, IconsKept
  <1>7. PixmapsRight'
    BY <1>1, <1>4, PixmapsKept
  <1>8. /\ shown'.picture = picture /\ shown'.theme = iconTheme /\ shown'.type = themeType
        /\ shown'.padded = TRUE /\ shown'.kind = "dci"
    BY <1>1, <1>4, <1>6 DEF Show
  <1>9. <<TRUE, iconTheme>> \in DOMAIN paths' /\ picture.file = paths'[<<TRUE, iconTheme>>]
    BY <1>3, <1>4 DEF FileKnown
  <1>10. picture.file = PathOf(TRUE, iconTheme)'
    BY <1>1, <1>4, <1>9, DciShown
  <1>11. PicturesAreRight'
    BY <1>8, <1>10, <1>1 DEF PicturesAreRight, PathOf
  <1> QED BY <1>6, <1>7, <1>11 DEF IconInv

LEMMA OtherPixmapStep ==
    ASSUME IconInv, NEW i \in Icons, icons[i] # NoIcon, NEW size, NEW mode, OtherPixmap(i, size, mode)
    PROVE  IconInv'
  <1> DEFINE x == icons[i]
             icon == Ensured(x)
             e == IF icon.engine.kind = "builtin" THEN EnsureLoaded(icon.engine) ELSE icon.engine
             picture == IF e.kind = "builtin" THEN [kind |-> e.kind, type |-> e.loaded]
                        ELSE IF e = NoEngine THEN NoPicture ELSE [kind |-> e.kind, theme |-> iconTheme]
             L == EnsureLookups(x)
             y == [icon EXCEPT !.engine = e]
  <1>1. /\ icon.engine.kind # "dci"
        /\ icons' = [icons EXCEPT ![i] = y] /\ paths' = Cached(L)
        /\ Show(i, picture, size, mode, FALSE)
        /\ UNCHANGED <<iconTheme, themeType, builtin, pixmaps, early>>
    BY DEF OtherPixmap, installation, themes
  <1>2. x \in ProxyEngines /\ ProxyOK(paths, x) /\ IconTypes
    BY DEF IconInv, IconTypes, IconsOK
  <1>3. L \in SUBSET Lookups
    BY <1>2, LookupsAre
  <1>4. e.kind = "builtin" => picture.type = e.loaded
    OBVIOUS
  <1> HIDE DEF picture, x, L
  <1>5. icon \in ProxyEngines /\ ProxyOK(paths', icon) /\ icon.copy = x.copy
    BY <1>1, <1>2, <1>3, EnsuredIs DEF L
  <1>6. /\ y \in ProxyEngines /\ ProxyOK(paths', y) /\ y.engine = e /\ y.copy = x.copy
        /\ e.kind # "dci"
        /\ e.kind = "builtin" /\ ~x.copy => e.loaded = IF themeType \in builtin THEN themeType ELSE None
    <2>1. CASE icon.engine.kind = "builtin"
      <3>1. e = EnsureLoaded(icon.engine)
        BY <2>1
      <3> HIDE DEF icon, e
      <3> QED BY <1>2, <1>5, <2>1, <3>1, LoadedIs
    <2>2. CASE icon.engine.kind # "builtin"
      <3>1. e = icon.engine
        BY <2>2
      <3> HIDE DEF icon, e
      <3>2. y = icon
        BY <1>5, <3>1 DEF ProxyEngines
      <3> QED BY <1>1, <1>5, <2>2, <3>1, <3>2
    <2> QED BY <2>1, <2>2
  <1> HIDE DEF icon, e, y
  <1>7. early' \in BOOLEAN
    BY <1>1, <1>2 DEF IconTypes
  <1>8. IconTypes' /\ IconsOK' /\ icons'[i] = y
    BY <1>1, <1>3, <1>6, <1>7, IconsKept
  <1>9. PixmapsRight'
    BY <1>1, <1>3, PixmapsKept
  <1>10. /\ shown'.picture = picture /\ shown'.type = themeType
         /\ shown'.kind = e.kind /\ shown'.copy = x.copy
    BY <1>1, <1>6, <1>8 DEF Show
  <1>11. PicturesAreRight'
    BY <1>1, <1>4, <1>6, <1>10 DEF PicturesAreRight
  <1> QED BY <1>8, <1>9, <1>11 DEF IconInv

-----------------------------------------------------------------------------
LEMMA IconSteps == IconInv /\ [IconNext]_iconVars => IconInv'
  <1> SUFFICES ASSUME IconInv, [IconNext]_iconVars PROVE IconInv'
    OBVIOUS
  <1>1. ASSUME NEW i \in Icons, NEW ignoreDci \in BOOLEAN, NewIcon(i, ignoreDci) PROVE IconInv'
    BY <1>1, NewIconStep
  <1>2. ASSUME NEW i \in Icons, NEW j \in Icons, CopyIcon(i, j) PROVE IconInv'
    BY <1>2, CopyIconStep
  <1>3. iconTheme \in Themes /\ themeType \in LookTypes
    BY DEF IconInv, IconTypes
  <1>4. ASSUME NEW i \in Icons, DropIcon(i) PROVE IconInv'
    <2>1. /\ icons' = [icons EXCEPT ![i] = NoIcon] /\ shown' = NoPicture
          /\ UNCHANGED <<builtin, paths, pixmaps, early, iconTheme, themeType>>
      BY <1>4 DEF DropIcon, installation, caches, themes
    <2> QED BY <1>3, <2>1, OtherSteps
  <1>5. ASSUME NEW i \in Icons, NEW r \in Requests, Use(i, r[1], r[2]) PROVE IconInv'
    <2>1. r[1] \in Nat
      BY IconThemeAssumption
    <2>2. icons[i] # NoIcon
      BY <1>5 DEF Use
    <2>3. ASSUME NEW scaled \in BOOLEAN, DciPixmap(i, r[1], r[2], scaled) PROVE IconInv'
      BY <2>1, <2>2, <2>3, DciPixmapStep
    <2>4. CASE DciPaint(i, r[1], r[2])
      BY <2>1, <2>2, <2>4, DciPaintStep
    <2>5. CASE OtherPixmap(i, r[1], r[2])
      BY <2>2, <2>5, OtherPixmapStep
    <2> QED BY <1>5, <2>3, <2>4, <2>5 DEF Use
  <1>6. ASSUME NEW t \in Themes, ThemeChange(t) PROVE IconInv'
    <2>1. /\ iconTheme' = t /\ shown' = NoPicture
          /\ UNCHANGED <<builtin, paths, pixmaps, early, icons, themeType>>
      BY <1>6 DEF ThemeChange, installation, caches
    <2> QED BY <1>3, <2>1, OtherSteps
  <1>7. CASE TypeChange
    <2>1. /\ themeType' \in LookTypes /\ shown' = NoPicture
          /\ UNCHANGED <<builtin, paths, pixmaps, early, icons, iconTheme>>
      BY <1>7 DEF TypeChange, installation, caches, LookTypes
    <2> QED BY <1>3, <2>1, OtherSteps
  <1>8. CASE Install
    <2>1. /\ shown' = NoPicture
          /\ UNCHANGED <<builtin, paths, pixmaps, early, icons, iconTheme, themeType>>
      BY <1>8 DEF Install, caches, themes
    <2> QED BY <1>3, <2>1, OtherSteps
  <1>9. CASE UNCHANGED iconVars
    <2>1. UNCHANGED <<iconTheme, themeType, builtin, files, paths, pixmaps, icons, early, shown>>
      BY <1>9 DEF iconVars, installation, themes, caches
    <2>2. IconTypes'
      BY <2>1 DEF IconInv, IconTypes
    <2>3. IconsOK'
      BY <2>1 DEF IconInv, IconsOK, ProxyOK, EngineKnown, FileKnown, LoadedByKey
    <2>4. PixmapsRight'
      BY <2>1 DEF IconInv, PixmapsRight
    <2>5. PicturesAreRight'
      BY <2>1 DEF IconInv, PicturesAreRight, PathOf, FindDciIconFile
    <2> QED BY <2>2, <2>3, <2>4, <2>5 DEF IconInv
  <1> QED BY <1>1, <1>2, <1>4, <1>5, <1>6, <1>7, <1>8, <1>9 DEF IconNext

LEMMA IconsInvariant == IconSpec => []IconInv
  <1>1. IconInit => IconInv
    BY InitialIcons
  <1>2. IconInv /\ [IconNext]_iconVars => IconInv'
    BY IconSteps
  <1> QED BY <1>1, <1>2, PTL DEF IconSpec

(* The engine of an icon is the one its theme calls for, for any icons,       *)
(* themes and installations: what was looked up when it was made is cached,   *)
(* and cannot become otherwise.                                               *)
THEOREM EnginesFit == IconSpec => []EngineFits
  <1>1. IconInv => EngineFits
    <2> SUFFICES ASSUME IconInv, NEW i \in Icons, icons[i] # NoIcon, icons[i].engine # NoEngine
                 PROVE  LET t == icons[i].theme
                        IN /\ icons[i].engine.kind = "dci" =>
                                  PathOf(TRUE, t) # NoPath \/ PathOf(FALSE, t) # NoPath
                           /\ (~icons[i].ignoreDci /\ ~icons[i].copy /\ PathOf(FALSE, t) # NoPath
                                  /\ ~IsEmpty(Nodes(PathOf(TRUE, t)))) => icons[i].engine.kind = "dci"
      BY DEF EngineFits
    <2> DEFINE x == icons[i]
    <2>1. EngineKnown(paths, x)
      BY DEF IconInv, IconsOK, ProxyOK
    <2>2. \A own \in BOOLEAN : \A t : <<own, t>> \in DOMAIN paths => PathOf(own, t) = paths[<<own, t>>]
      BY DEF PathOf
    <2> HIDE DEF x
    <2>3. x.engine.kind = "dci" => PathOf(TRUE, x.theme) # NoPath \/ PathOf(FALSE, x.theme) # NoPath
      BY <2>1, <2>2 DEF EngineKnown, x
    <2>4. x.engine.kind # "dci" =>
              \/ x.ignoreDci \/ x.copy \/ PathOf(FALSE, x.theme) = NoPath
              \/ IsEmpty(Nodes(PathOf(TRUE, x.theme)))
      BY <2>1, <2>2 DEF EngineKnown, x
    <2> QED BY <2>3, <2>4 DEF x
  <1> QED BY <1>1, IconsInvariant, PTL

(* Every picture that is handed out is the right one of the right file, for   *)
(* any files whose directories come by size, though both the paths and the    *)
(* pixmaps are cached.                                                        *)
THEOREM PicturesAreOfTheTheme == IconSpec => []PicturesAreRight
  <1>1. IconInv => PicturesAreRight
    BY DEF IconInv
  <1> QED BY <1>1, IconsInvariant, PTL

=============================================================================
