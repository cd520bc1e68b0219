------------------------------- MODULE UnitFile -------------------------------
(***************************************************************************)
(* The text of a share's two unit files: how src/src/core/unitvalue.cpp    *)
(* and unitspec.cpp write it, how they validate it, how verify.cpp scans   *)
(* it, and what systemd makes of it.  A value is a sequence of pieces of   *)
(* text; a line is a record of its kind, its key and its value.  The state *)
(* machine is an administrator with an editor.                             *)
(***************************************************************************)
EXTENDS Naturals, Sequences, FiniteSets

CONSTANTS Pieces,       \* what text is made of
          Words,        \* keys and section names
          Asks,         \* what callers ask for: [unc, where, marker]
          Ids,          \* 32 lowercase hex characters
          CallerUid,    \* whose definitions are asked for
          Digits,       \* texts of decimal digits
          TooLarge,     \* the digits that are no 32-bit number
          EditBlocks,   \* the lines an administrator may put into a file at once
          MaxEdits      \* bound: edits

VARIABLES mountFile, autoFile,   \* their lines, or Missing
          asked,                 \* what the definition was written for
          edits

vars == <<mountFile, autoFile, asked, edits>>

Missing == <<"no file">>

Line(kind, key, value) == [kind |-> kind, key |-> key, value |-> value]

Text == Seq(Pieces)

Kinds == {"comment", "blank", "header", "indented", "assign", "field"}

Lines == [kind : Kinds, key : Words, value : Text]

Comment            == Line("comment", "none", <<>>)
Blank              == Line("blank", "none", <<>>)
Header(section)    == Line("header", section, <<>>)
\* With blanks before or behind it.
Indented(section)  == Line("indented", section, <<>>)
Assign(key, value) == Line("assign", key, value)
Field(key, value)  == Line("field", key, <<value>>)

Last(s) == s[Len(s)]

Kind(file, kind) == {i \in DOMAIN file : file[i].kind = kind}

FieldKeys == {"Managed", "Owner-Uid", "Owner-Gid", "Id", "Mode", "Authentication"}

MountKeys     == {"What", "Where", "Type", "Options", "TimeoutSec"}
AutomountKeys == {"Where", "TimeoutIdleSec", "DirectoryMode"}

\* The text and the keys that the code and systemd put in of their own accord.
Literals == {"nasmount", "cifs", "30", "60", "0700", "1", "system", "credentials", "guest",
             "credentials=/etc/nasmount/", ",nosuid,nodev,forceuid,forcegid,uid=", ",gid=", ",nounix",
             "%", "expansion", "\\", "space", "#", "040", "134", "043"}

Keys == FieldKeys \cup MountKeys \cup AutomountKeys
          \cup {"none", "Description", "ConditionPathIsDirectory", "Unit", "Mount", "Automount"}

ASSUME TextAssumption ==
    /\ Literals \cup Ids \cup Digits \subseteq Pieces /\ Keys \subseteq Words
    /\ CallerUid \in Digits \ TooLarge
    /\ Asks \subseteq [unc : Text, where : Text,
                      marker : [uid : {CallerUid}, gid : Digits \ TooLarge, id : Ids,
                                auth : {"credentials", "guest"}]]
    /\ EditBlocks \subseteq Seq(Lines) \ {<<>>}

-------------------------------------------------------------------------------
(* Values.                                                                 *)

\* Every "%" of the text doubled.
Doubled(text) ==
    LET upTo[i \in 0..Len(text)] ==
            IF i = 0 THEN <<>>
            ELSE upTo[i - 1] \o (IF text[i] = "%" THEN <<"%", "%">> ELSE <<text[i]>>)
    IN  upTo[Len(text)]

\* encodeUnitValue refuses what no unit file line can carry.
Encodable(text) ==
    /\ text # <<>>
    /\ \A i \in DOMAIN text : text[i] # "newline"
    /\ text[1] # "space" /\ Last(text) # "space"
    /\ Last(text) # "\\"
    /\ text[1] # "quote"

\* QString::replace: every occurrence of a pair of pieces, from left to right.
Replaced(text, pair, by) ==
    LET from[i \in 1..(Len(text) + 2)] ==
            IF i > Len(text) THEN <<>>
            ELSE IF i < Len(text) /\ <<text[i], text[i + 1]>> = pair
                 THEN <<by>> \o from[i + 2]
                 ELSE <<text[i]>> \o from[i + 1]
    IN  from[1]

\* undoublePercent.
Undoubled(text) == Replaced(text, <<"%", "%">>, "%")

\* systemd: "%%" is a percent sign, "%" and a letter something else altogether.
Expanded(text) ==
    LET from[i \in 1..(Len(text) + 2)] ==
            IF i > Len(text) THEN <<>>
            ELSE IF i < Len(text) /\ text[i] = "%"
                 THEN <<IF text[i + 1] = "%" THEN "%" ELSE "expansion">> \o from[i + 2]
                 ELSE <<text[i]>> \o from[i + 1]
    IN  from[1]

\* A percent sign that systemd would expand.
Expandable(text) == Doubled(Undoubled(text)) # text

\* validateUnc: trailing slashes go, then host and share, no "..".
Normalised(unc) ==
    LET kept == {n \in 0..Len(unc) : n = 0 \/ unc[n] # "/"}
    IN  SubSeq(unc, 1, CHOOSE n \in kept : \A k \in kept : k <= n)

ValidUnc(unc) ==
    LET value == Normalised(unc)
    IN  /\ value # <<>> /\ value[1] = "//host/share"
        /\ \A i \in DOMAIN value : value[i] \notin {"newline", "/.."}

\* mountOptionsFor: fixed but for the marker's fields.
MountOptions(marker) ==
    (IF marker.auth = "guest" THEN <<"guest">> ELSE <<"credentials=/etc/nasmount/", marker.id>>)
        \o <<",nosuid,nodev,forceuid,forcegid,uid=", marker.uid, ",gid=", marker.gid, ",nounix">>

-------------------------------------------------------------------------------
(* Markers.                                                                *)

MarkerComment(marker) ==
    <<Field("Managed", "1"), Field("Owner-Uid", marker.uid), Field("Owner-Gid", marker.gid),
      Field("Id", marker.id), Field("Mode", "system"), Field("Authentication", marker.auth)>>

HasMarker(file) == Kind(file, "field") # {}

\* What the pattern of a field matches.
Legal(key) ==
    IF key \in {"Owner-Uid", "Owner-Gid"} THEN Digits
    ELSE IF key = "Id" THEN Ids
    ELSE IF key = "Managed" THEN {"1"}
    ELSE IF key = "Mode" THEN {"system"}
    ELSE {"credentials", "guest"}

FieldValue(file, key) == file[CHOOSE i \in Kind(file, "field") : file[i].key = key].value[1]

\* parseMarker: every field once and well-formed, nothing else in its namespace.
MarkerParses(file) ==
    LET fields == Kind(file, "field")
    IN  /\ {file[i].key : i \in fields} = FieldKeys /\ Cardinality(fields) = Cardinality(FieldKeys)
        /\ \A i \in fields : file[i].value[1] \in Legal(file[i].key)
        /\ {FieldValue(file, "Owner-Uid"), FieldValue(file, "Owner-Gid")} \cap TooLarge = {}

ParsedMarker(file) ==
    [uid |-> FieldValue(file, "Owner-Uid"), gid |-> FieldValue(file, "Owner-Gid"),
     id |-> FieldValue(file, "Id"), auth |-> FieldValue(file, "Authentication")]

-------------------------------------------------------------------------------
(* The two bodies as they are written.                                     *)

Buildable(unc, where) == Encodable(unc) /\ Encodable(where)

MountUnit(marker, unc, where) ==
    <<Comment>> \o MarkerComment(marker)
      \o <<Header("Unit"), Assign("Description", <<"nasmount">>), Blank, Header("Mount"),
           Assign("What", Doubled(unc)), Assign("Where", Doubled(where)), Assign("Type", <<"cifs">>),
           Assign("Options", Doubled(MountOptions(marker))), Assign("TimeoutSec", <<"30">>)>>

AutomountUnit(marker, where) ==
    <<Comment>> \o MarkerComment(marker)
      \o <<Header("Unit"), Assign("Description", <<"nasmount">>),
           Assign("ConditionPathIsDirectory", Doubled(where)), Blank, Header("Automount"),
           Assign("Where", Doubled(where)), Assign("TimeoutIdleSec", <<"60">>),
           Assign("DirectoryMode", <<"0700">>)>>

-------------------------------------------------------------------------------
(* Validation.                                                             *)

HasLineContinuation(file) ==
    \E i \in Kind(file, "assign") : file[i].value # <<>> /\ Last(file[i].value) = "\\"

\* The section of a line: the nearest header of one of these kinds above it.
SectionAt(file, i, kinds) ==
    LET above == {h \in 1..i : file[h].kind \in kinds}
    IN  IF above = {} THEN "none" ELSE file[CHOOSE h \in above : \A k \in above : k <= h].key

Within(file, section) ==
    {i \in DOMAIN file : /\ file[i].kind \notin {"header", "blank"}
                         /\ SectionAt(file, i, {"header"}) = section}

\* Mutant: a key may come twice.
SectionParsesTwice(file, section, allowed) ==
    /\ \E i \in Kind(file, "header") : file[i].key = section
    /\ \A i \in Within(file, section) : file[i].kind = "assign" /\ file[i].key \in allowed

\* extractSectionAssignments: nothing but allowed assignments, each once.
SectionParses(file, section, allowed) ==
    /\ \E i \in Kind(file, "header") : file[i].key = section
    /\ LET body == Within(file, section)
       IN  \A i \in body : /\ file[i].kind = "assign" /\ file[i].key \in allowed
                           /\ \A j \in body : file[j].key = file[i].key => i = j

Assigns(file, section, key, value) ==
    \E i \in Within(file, section) : file[i].key = key /\ file[i].value = value

InMount(file, key) == file[CHOOSE i \in Within(file, "Mount") : file[i].key = key].value

WhatOf(file) == Undoubled(InMount(file, "What"))

ValidMountBody(file, marker, where) ==
    /\ ~HasLineContinuation(file)
    /\ SectionParses(file, "Mount", MountKeys)
    /\ MountKeys \subseteq {file[i].key : i \in Within(file, "Mount")}
    /\ Assigns(file, "Mount", "Type", <<"cifs">>)
    /\ Assigns(file, "Mount", "TimeoutSec", <<"30">>)
    /\ Undoubled(InMount(file, "Where")) = where
    /\ ValidUnc(WhatOf(file))
    /\ Assigns(file, "Mount", "Options", Doubled(MountOptions(marker)))

ValidAutomountBody(file, where) ==
    /\ ~HasLineContinuation(file)
    /\ SectionParses(file, "Automount", AutomountKeys)
    /\ SectionParses(file, "Unit", {"Description", "ConditionPathIsDirectory"})
    /\ Encodable(where)
    /\ Assigns(file, "Automount", "Where", Doubled(where))
    /\ Assigns(file, "Unit", "ConditionPathIsDirectory", Doubled(where))
    /\ Assigns(file, "Automount", "TimeoutIdleSec", <<"60">>)
    /\ Assigns(file, "Automount", "DirectoryMode", <<"0700">>)

\* evaluateMountSide and evaluateAutomountSide.
Side(file, valid) ==
    IF file = Missing THEN "NotPresent"
    ELSE IF ~HasMarker(file) THEN "NoMarker"
    ELSE IF MarkerParses(file) /\ ParsedMarker(file).uid = CallerUid /\ valid THEN "Valid"
    ELSE "Broken"

MountSide(where) ==
    Side(mountFile, MarkerParses(mountFile) /\ ValidMountBody(mountFile, ParsedMarker(mountFile), where))

AutomountSide(where) == Side(autoFile, ValidAutomountBody(autoFile, where))

\* Mutant: the two markers are not compared.
VerdictUnpaired(where) ==
    LET sides == {MountSide(where), AutomountSide(where)}
    IN  CASE sides = {"NotPresent"} -> "None"
          [] "Broken" \in sides     -> "Tampered"
          [] "NoMarker" \in sides /\ "Broken" \notin sides -> "NotOurs"
          [] sides = {"Valid"} -> "Pair"
          [] sides = {"Valid", "NotPresent"} -> "Partial"

\* inspectDefinition, of two files that are regular, root's and without drop-ins.
Verdict(where) ==
    LET sides == {MountSide(where), AutomountSide(where)}
    IN  CASE sides = {"NotPresent"} -> "None"
          [] "Broken" \in sides     -> "Tampered"
          [] "NoMarker" \in sides /\ "Broken" \notin sides -> "NotOurs"
          [] sides = {"Valid"} ->
                IF ParsedMarker(mountFile) = ParsedMarker(autoFile) THEN "Pair" ELSE "Tampered"
          [] sides = {"Valid", "NotPresent"} -> "Partial"

Trusted == Verdict(asked.where) \in {"Pair", "Partial"}

\* The marker and What= a trusted definition is reported with.
TrustedMarker == IF mountFile = Missing THEN ParsedMarker(autoFile) ELSE ParsedMarker(mountFile)
TrustedWhat   == IF mountFile = Missing THEN <<>> ELSE WhatOf(mountFile)

-------------------------------------------------------------------------------
(* The listing.                                                            *)

AssignsOf(file, key) == {i \in Kind(file, "assign") : file[i].key = key}

\* extractAssignment: the last one, whatever section it stands in.
Extracted(file, key) ==
    LET at == AssignsOf(file, key)
    IN  IF at = {} THEN <<>>
        ELSE file[CHOOSE i \in at : \A k \in at : k <= i].value

\* scanManagedHalves.
Scannable(file) ==
    /\ file # Missing
    /\ MarkerParses(file) /\ ParsedMarker(file).uid = CallerUid
    /\ AssignsOf(file, "Where") # {}

Scanned(file) == [marker |-> ParsedMarker(file), where |-> Undoubled(Extracted(file, "Where"))]

\* pairScannedHalves, of the one base name there is.
Listed ==
    LET halves == {Scanned(f) : f \in {g \in {mountFile, autoFile} : Scannable(g)}}
        what   == IF Scannable(mountFile) THEN Undoubled(Extracted(mountFile, "What")) ELSE <<>>
        both   == Scannable(mountFile) /\ Scannable(autoFile)
    IN  CASE halves = {} -> [state |-> "None"]
          [] halves # {} /\ (\A g, h \in halves : g = h) ->
                LET half == CHOOSE h \in halves : TRUE
                IN  [state |-> IF both THEN "Pair" ELSE "Partial",
                     marker |-> half.marker, where |-> half.where, what |-> what]
          [] OTHER -> [state |-> "Tampered"]

-------------------------------------------------------------------------------
(* systemd and the kernel.                                                 *)

\* It takes the blanks off both ends of a value before it does anything else.
Stripped(text) ==
    LET kept == {i \in DOMAIN text : text[i] # "space"}
    IN  IF kept = {} THEN <<>>
        ELSE SubSeq(text, CHOOSE i \in kept : \A k \in kept : i <= k,
                          CHOOSE i \in kept : \A k \in kept : k <= i)

\* Its headers may have blanks around them; the last assignment in a section counts.
Reads(file, section, key) ==
    LET at == {i \in AssignsOf(file, key) :
                  SectionAt(file, i, {"header", "indented"}) = section}
    IN  IF at = {} THEN <<>>
        ELSE Expanded(Stripped(file[CHOOSE i \in at : \A k \in at : k <= i].value))

Escapes == [c \in {"space", "\\", "#"} |->
               CASE c = "space" -> "040" [] c = "\\" -> "134" [] c = "#" -> "043"]

\* A field of /proc/self/mountinfo.
Escaped(text, special) ==
    LET upTo[i \in 0..Len(text)] ==
            IF i = 0 THEN <<>>
            ELSE upTo[i - 1] \o (IF text[i] \in special
                                 THEN <<"\\", Escapes[text[i]]>> ELSE <<text[i]>>)
    IN  upTo[Len(text)]

\* Mutant: the backslash first.
UnescapedEarly(field) ==
    Replaced(Replaced(field, <<"\\", "134">>, "\\"), <<"\\", "040">>, "space")

\* unescapeMountinfoField: the backslash last.
Unescaped(field) ==
    Replaced(Replaced(field, <<"\\", "040">>, "space"), <<"\\", "134">>, "\\")

\* classifyMountEntries finds the mount systemd makes of the file, and its source agrees.
Recognised(where, what) ==
    /\ Unescaped(Escaped(Reads(mountFile, "Mount", "Where"), {"space", "\\"})) = where
    /\ Reads(mountFile, "Mount", "Type") = <<"cifs">>
    /\ Unescaped(Escaped(Reads(mountFile, "Mount", "What"), {"space", "\\", "#"})) = what

-------------------------------------------------------------------------------
(* Behaviour.                                                              *)

Init ==
    /\ mountFile = Missing /\ autoFile = Missing
    /\ asked \in Asks
    /\ edits = 0

\* What define writes, for the UNC as validateUnc normalised it.
WritePair ==
    /\ mountFile = Missing /\ autoFile = Missing
    /\ \E ask \in Asks :
          LET unc == Normalised(ask.unc)
          IN  /\ ValidUnc(ask.unc) /\ Buildable(unc, ask.where)
              /\ asked' = [ask EXCEPT !.unc = unc]
              /\ mountFile' = MountUnit(ask.marker, unc, ask.where)
              /\ autoFile' = AutomountUnit(ask.marker, ask.where)
              /\ edits' = 0

Inserted(file, block) ==
    {SubSeq(file, 1, i) \o block \o SubSeq(file, i + 1, Len(file)) : i \in 0..Len(file)}

Deleted(file) == {SubSeq(file, 1, i - 1) \o SubSeq(file, i + 1, Len(file)) : i \in DOMAIN file}

\* Another value for a line that is there.
Revalued(file, line) ==
    {[file EXCEPT ![i] = line] :
        i \in {j \in DOMAIN file : file[j].kind = line.kind /\ file[j].key = line.key}}

Edited(file) ==
    {Missing} \cup Deleted(file)
      \cup UNION {Inserted(file, block) \cup Revalued(file, Last(block)) : block \in EditBlocks}

Edit ==
    /\ edits < MaxEdits /\ edits' = edits + 1
    /\ \/ mountFile # Missing /\ mountFile' \in Edited(mountFile) /\ UNCHANGED autoFile
       \/ autoFile # Missing /\ autoFile' \in Edited(autoFile) /\ UNCHANGED mountFile
    /\ UNCHANGED asked

\* The pair is removed, by whomever.
Discard ==
    /\ mountFile' = Missing /\ autoFile' = Missing /\ edits' = 0
    /\ UNCHANGED asked

Next == WritePair \/ Edit \/ Discard

Spec == Init /\ [][Next]_vars

-------------------------------------------------------------------------------
(* Properties.                                                             *)

\* What define wrote and nobody edited is understood alike by all that read
\* it: the validators call it a pair with the marker, UNC and mount point asked
\* for, the listing shows the same, systemd mounts exactly that, and the mount
\* it makes is recognised in mountinfo - whatever percent signs, blanks or
\* backslashes the names hold, but for a "#" in the UNC, which mountinfo
\* escapes and the code does not unescape.
RoundTrips ==
    mountFile # Missing /\ autoFile # Missing /\ edits = 0 =>
        /\ Verdict(asked.where) = "Pair"
        /\ TrustedMarker = asked.marker /\ TrustedWhat = asked.unc
        /\ Listed = [state |-> "Pair", marker |-> asked.marker,
                     where |-> asked.where, what |-> asked.unc]
        /\ \/ Recognised(asked.where, asked.unc)
           \/ \E i \in DOMAIN asked.unc : asked.unc[i] = "#"

IndentedHeader(file) == Kind(file, "indented") # {}

\* Whatever was edited, a definition that is still trusted has every functional
\* directive of the template in the place where systemd reads it, with the value
\* the marker and the mount point call for: nothing added above, below or twice
\* counts instead.  Three edits do escape the validators: a percent sign that
\* is not doubled in What= or Where= of the mount half; a blank behind What= of
\* the mount half, which systemd takes off and the code keeps as part of the
\* share's name; and a section header with blanks around it, which only systemd
\* takes for one.
TrustedIsTemplate ==
    Trusted =>
        /\ \/ mountFile = Missing \/ IndentedHeader(mountFile)
           \/ /\ \/ Expandable(InMount(mountFile, "What"))
                 \/ Last(InMount(mountFile, "What")) = "space"
                 \/ Reads(mountFile, "Mount", "What") = TrustedWhat
              /\ \/ Expandable(InMount(mountFile, "Where"))
                 \/ Reads(mountFile, "Mount", "Where") = asked.where
              /\ Reads(mountFile, "Mount", "Type") = <<"cifs">>
              /\ Reads(mountFile, "Mount", "Options") = MountOptions(TrustedMarker)
              /\ Reads(mountFile, "Mount", "TimeoutSec") = <<"30">>
        /\ \/ autoFile = Missing \/ IndentedHeader(autoFile)
           \/ /\ Reads(autoFile, "Automount", "Where") = asked.where
              /\ Reads(autoFile, "Unit", "ConditionPathIsDirectory") = asked.where
              /\ Reads(autoFile, "Automount", "TimeoutIdleSec") = <<"60">>
              /\ Reads(autoFile, "Automount", "DirectoryMode") = <<"0700">>

\* The only What= and Where= of a file are those of its functional section.
OnlyInPlace(file, section) ==
    file = Missing \/ \A key \in {"What", "Where"} : AssignsOf(file, key) \subseteq Within(file, section)

\* Two readers that share no code agree: a definition that inspectDefinition
\* trusts is the one the scan of the directory lists, in the same state, with
\* the same marker, mount point and UNC - so that the listing, a purge and the
\* boot act on what define and remove act on - unless a What= or Where= stands
\* in a section where only the scan looks.
TrustedIsListed ==
    Trusted /\ OnlyInPlace(mountFile, "Mount") /\ OnlyInPlace(autoFile, "Automount") =>
        Listed = [state |-> Verdict(asked.where), marker |-> TrustedMarker,
                  where |-> asked.where, what |-> TrustedWhat]

===============================================================================
