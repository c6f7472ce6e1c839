--------------------------- MODULE DAFFCSWrapper ---------------------------
(***************************************************************************)
(* The C# binding: the classes DAFFReader, IR and MS (src/bindings/csharp/ *)
(* DAFF.cs) on the functions of DAFFCSWrapper.cpp.  A view (IR, MS) holds  *)
(* a bare pointer into the native reader, which the finalizer of the C#    *)
(* reader deletes: the garbage collector may run it as soon as the client  *)
(* has let the reader go, views or not.                                    *)
(***************************************************************************)
EXTENDS DAFFBinding

Views == {"IR", "MS"}

VARIABLES csReader,   \* C# reader -> file of its native reader, Closed when nothing is
                      \* loaded, NoFile before construction and after the finalizer
          csHeld,     \* readers the client still refers to
          csView,     \* view class -> the reader its pointer reaches, NoReader for null
          csResult    \* the last result

csVars == <<csReader, csHeld, csView, csResult>>

CsNothing == [kind |-> "nothing"]

CsInit ==
  /\ csReader = [r \in Readers |-> NoFile]
  /\ csHeld = {}
  /\ csView = [v \in Views |-> NoReader]
  /\ csResult = CsNothing

(* Memory is not used again: a reader that was finalized is not constructed
   a second time.                                                          *)
Finalized(r) == csReader[r] = NoFile /\ \E v \in Views : csView[v] = r

NativeDAFFCreate(r) ==
  /\ csReader[r] = NoFile /\ ~Finalized(r)
  /\ csReader' = [csReader EXCEPT ![r] = Closed]
  /\ csHeld' = csHeld \cup {r}
  /\ csResult' = CsNothing
  /\ UNCHANGED csView

(* The client lets a reader go. *)
Drop(r) ==
  /\ r \in csHeld
  /\ csHeld' = csHeld \ {r}
  /\ UNCHANGED <<csReader, csView, csResult>>

NativeDAFFDispose(r) ==
  /\ csReader[r] # NoFile /\ r \notin csHeld
  /\ csReader' = [csReader EXCEPT ![r] = NoFile]
  /\ csResult' = CsNothing
  /\ UNCHANGED <<csHeld, csView>>

(* The file could not be read. *)
NativeDAFFLoadFails(r) ==
  /\ r \in csHeld
  /\ csResult' = [kind |-> "loaded", value |-> FALSE, agrees |-> TRUE]
  /\ UNCHANGED <<csReader, csHeld, csView>>

(* A mutant: deserialize replaces a content that is loaded already. *)
NativeDAFFLoadAgain(r, f, valid) ==
  /\ r \in csHeld
  /\ csReader' = [csReader EXCEPT ![r] = IF valid THEN f ELSE @]
  /\ csResult' = [kind |-> "loaded", value |-> TRUE, agrees |-> valid]
  /\ UNCHANGED <<csHeld, csView>>

(* The file was read: Load answers true, whether deserialize accepts its
   bytes or not.  It refuses them when a content is loaded already, which
   then stays.                                                             *)
NativeDAFFLoad(r, f, valid) ==
  /\ r \in csHeld
  /\ LET accepted == valid /\ csReader[r] = Closed
     IN  /\ csReader' = [csReader EXCEPT ![r] = IF accepted THEN f ELSE @]
         /\ csResult' = [kind |-> "loaded", value |-> TRUE, agrees |-> accepted]
  /\ UNCHANGED <<csHeld, csView>>

IsDataPresent(r) ==
  /\ r \in csHeld
  /\ csResult' = [kind |-> "present", value |-> TRUE, agrees |-> csReader[r] # Closed]
  /\ UNCHANGED <<csReader, csHeld, csView>>

(* -1 without a content; the enumeration knows two types. *)
GetContentType(r) ==
  /\ r \in csHeld
  /\ csResult' = [kind |-> "type",
                  value |-> IF csReader[r] = Closed \/ csReader[r].content \notin Views THEN "Invalid"
                            ELSE csReader[r].content]
  /\ UNCHANGED <<csReader, csHeld, csView>>

(* GetContentIR, GetContentMS: a null pointer when the content is another. *)
GetContent(r, v) ==
  /\ r \in csHeld
  /\ csView' = [csView EXCEPT ![v] = IF csReader[r] = Closed THEN NoReader
                                     ELSE IF csReader[r].content = v THEN r ELSE NoReader]
  /\ csResult' = CsNothing
  /\ UNCHANGED <<csReader, csHeld>>

ViewAnswers(result) == csResult' = result /\ UNCHANGED <<csReader, csHeld, csView>>

(* A call through a view: without a reader it answers emptily, with a
   deleted one anything.                                                   *)
ViewFile(v) == csReader[csView[v]]

Through(v, empty, answer) ==
  ViewAnswers(IF csView[v] = NoReader THEN empty
              ELSE IF ViewFile(v) = NoFile THEN [kind |-> "garbage"] ELSE answer)

GetNearestNeighbourRecordIndex(v, a) ==
  Through(v, [kind |-> "index", value |-> -1],
             [kind |-> "index", value |-> Nearest(ViewFile(v), "object", a)])

CsGetRecordCoords(v, i) ==
  Through(v, CsNothing,
          [kind |-> "coords", value |-> IF i \in Records(ViewFile(v)) THEN <<"object", i>> ELSE <<>>])

GetLength(v) ==
  Through(v, [kind |-> "length", value |-> 0], [kind |-> "length", value |-> ViewFile(v).elements])

(* An array of GetLength() zeros is filled by the getter, whose answer is
   not looked at.                                                          *)
GetRecordData(v, i, c) ==
  LET f == ViewFile(v)
      cells == (IF v = "IR" THEN getFilterCoeffs(f, i, c, 1) ELSE getMagnitudes(f, i, c)).cells
  IN  Through(v, CsNothing,
              [kind |-> "data", file |-> f, view |-> v, index |-> i, channel |-> c,
               value |-> Overlay([k \in Elements(f) |-> 0], cells),
               fits |-> DOMAIN cells \subseteq Elements(f)])

CsNext ==
  \/ \E r \in Readers :
       \/ NativeDAFFCreate(r) \/ Drop(r) \/ NativeDAFFDispose(r) \/ NativeDAFFLoadFails(r)
       \/ IsDataPresent(r) \/ GetContentType(r)
       \/ \E f \in Files, valid \in BOOLEAN : NativeDAFFLoad(r, f, valid)
       \/ \E v \in Views : GetContent(r, v)
  \/ \E v \in Views :
       \/ GetLength(v)
       \/ \E a \in Angles : GetNearestNeighbourRecordIndex(v, a)
       \/ \E i \in -1 .. 2 : CsGetRecordCoords(v, i) \/ \E c \in 0 .. 1 : GetRecordData(v, i, c)

CsSpec == CsInit /\ [][CsNext]_csVars

-----------------------------------------------------------------------------
(* A view was taken of a content of its class, and however often the reader
   is asked to load again, it still is of that class while the reader
   exists: data comes from the record and channel asked for, and fits the
   array.                                                                  *)
CsViewsKeepTheirContent ==
  /\ \A v \in Views : csView[v] # NoReader =>
       \/ csReader[csView[v]] = NoFile
       \/ csReader[csView[v]] # Closed /\ csReader[csView[v]].content = v
  /\ csResult.kind = "data" =>
       LET f == csResult.file
       IN  /\ f.content = csResult.view
           /\ csResult.fits
           /\ csResult.index \in Records(f) /\ csResult.channel \in Channels(f) =>
                \A k \in Elements(f) :
                  csResult.value[k] = NumberOf(f, csResult.index, csResult.channel, k, 0)

(* "Checks if class is valid and ready to use" (DAFF.cs:136, 226): a view
   that was given a content can be used.  IsValid compares a pointer with
   null and is always true.                                                *)
IsValid(v) == TRUE
ValidViewsAreReady == \A v \in Views : csView[v] # NoReader /\ IsValid(v) => csReader[csView[v]] # NoFile
=============================================================================
