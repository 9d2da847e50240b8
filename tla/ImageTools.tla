----------------------------- MODULE ImageTools -----------------------------
(***************************************************************************)
(* The two commands of aaruformattool that edit an image in place:         *)
(* inject_media_tag (tool/inject_media_tag.c), which adds a media tag, and *)
(* upgrade_ddt_to_alpha21 (tool/upgrade_ddt_to_alpha21.c), which writes    *)
(* the tables of an image of an older library under the header of today.   *)
(* Neither goes through the library: each reads the index, appends its     *)
(* blocks and an index of its own, and then rewrites the header.           *)
(*                                                                         *)
(* A command has the image for itself, between the sessions of             *)
(* OptionalBlocks; nothing locks the file, which is left to the user.      *)
(***************************************************************************)
EXTENDS FluxCaptures

CONSTANTS
    InjectedTags,   \* Bound: the media tags that may be injected,
    InjectedValues, \* their contents,
    InjectedInto    \* and the groups of slots whose images they go into

ASSUME InjectedAssumption ==
    InjectedTags \subseteq Tags \ {None} /\ InjectedValues \subseteq Values

VARIABLE tool       \* The command that runs

toolVars == <<vars, tool>>

(* slot, value: the media tag that is injected, None for an upgrade; todo: *)
(* the blocks to append; entries: those of the index to come; at: its      *)
(* place, once it is written.                                              *)
NoTool == [slot |-> None, value |-> None, todo |-> <<>>, entries |-> <<>>, at |-> 0]

Idle == tool = NoTool

TableKinds == {"ddt", "ddt_prefix"}

(* Tables of a library before its alpha 21, whose header has another       *)
(* layout.  A table of sectors, and that of the prefixes of a CD.          *)
OldTable(k) == [kind |-> k, value |-> "alpha20", count |-> 1]

OldImage ==
    <<OldTable("ddt"), OldTable("ddt_prefix"),
      [kind |-> "geometry", value |-> CHOOSE v \in Values : TRUE, count |-> 1],
      [kind |-> "index", count |-> 3,
       value |-> << [kind |-> "ddt", at |-> 1], [kind |-> "ddt_prefix", at |-> 2],
                    [kind |-> "geometry", at |-> 3] >>]>>

(* Such an image, of which this library knows nothing yet. *)
OldInit ==
    /\ active = {"media_tag_a"}
    /\ media = "OpticalDisc"
    /\ mem = NoMem
    /\ identifier = FALSE
    /\ dirty = {}
    /\ flux = NoFlux
    /\ index = <<>>
    /\ dirtyIndex = FALSE
    /\ phase = "ended"
    /\ stage = 0
    /\ file = OldImage
    /\ root = Len(OldImage)
    /\ fresh = FALSE
    /\ edited = {}
    /\ faulted = FALSE
    /\ edits = 0
    /\ sessions = 0
    /\ faults = 0

(***************************************************************************)
(* The commands.                                                           *)
(***************************************************************************)
ToolRuns ==
    UNCHANGED <<active, media, context, index, dirtyIndex, stage, fresh, edited,
                sessions>>

(* A command starts on an image that is not open, and reads its index. *)
ToolStarts(t) ==
    /\ Idle
    /\ phase \in {"closed", "ended"}
    /\ DiskIndex # <<>>
    /\ tool' = t
    /\ phase' = "ended"
    /\ ToolRuns
    /\ UNCHANGED <<file, root, faulted, faults>>

(* inject_media_tag has a table of its own, and refuses what is not in it. *)
get_datatype_for_media_tag_type(t) ==
    IF t \in TypedTags THEN t ELSE "none"

(* Mutant: the entries of all data blocks go. *)
EntriesWithoutAny(k) == OfKinds(DiskIndex, BlockKinds \ TagKinds)

(* The entry of the tag that the image has goes. *)
EntriesWithout(k) == OfKinds(DiskIndex, BlockKinds \ {k})

HasUserData == \E i \in DOMAIN DiskIndex : DiskIndex[i].kind = "ddt"

inject_media_tag(t, v) ==
    LET k == get_datatype_for_media_tag_type(t) IN
    /\ k # "none"
    /\ active \cap InjectedInto # {}
    /\ HasUserData
    /\ edits < MaxEdits
    /\ edits' = edits + 1
    /\ ToolStarts([slot |-> t, value |-> v, at |-> 0,
                   entries |-> EntriesWithout(k),
                   todo |-> <<[kind |-> k, value |-> v, count |-> 1]>>])

Tables == OfKinds(DiskIndex, TableKinds)

(* The new header takes every field of the old one, with what is behind it. *)
NewTable(b) == [b EXCEPT !.value = None]

(* The command takes any image, and would take the tables of today for old *)
(* ones: it is run on an image of an older library, as its warning asks.   *)
upgrade_ddt_to_alpha21 ==
    /\ HasUserData
    /\ ~TablesAreOurs
    /\ ToolStarts([slot |-> None, value |-> None, at |-> 0,
                   entries |-> OfKinds(DiskIndex, BlockKinds \ TableKinds),
                   todo |-> [i \in DOMAIN Tables |-> NewTable(file[Tables[i].at])]])
    /\ UNCHANGED edits

Injects == tool.slot # None

(* The end of the file, where the next block goes. *)
AppendBlock ==
    /\ tool.todo # <<>>
    /\ file' = Append(file, Head(tool.todo))
    /\ tool' = [tool EXCEPT
                 !.todo = Tail(@),
                 !.entries = Append(@, [kind |-> Head(tool.todo).kind,
                                        at |-> Len(file) + 1])]
    /\ ToolRuns
    /\ UNCHANGED <<root, phase, edits, faulted, faults>>

inject_block == ~Idle /\ Injects /\ AppendBlock
upgrade_table == ~Idle /\ ~Injects /\ AppendBlock

AppendIndex ==
    /\ tool.todo = <<>>
    /\ tool.at = 0
    /\ file' = Append(file, [kind |-> "index", value |-> tool.entries,
                             count |-> Len(tool.entries)])
    /\ tool' = [tool EXCEPT !.at = Len(file) + 1]
    /\ ToolRuns
    /\ UNCHANGED <<root, phase, edits, faulted, faults>>

inject_index == ~Idle /\ Injects /\ AppendIndex
upgrade_index == ~Idle /\ ~Injects /\ AppendIndex

RewriteHeader ==
    /\ tool.at # 0
    /\ root' = tool.at
    /\ tool' = NoTool
    /\ ToolRuns
    /\ UNCHANGED <<file, phase, edits, faulted, faults>>

inject_header == ~Idle /\ Injects /\ RewriteHeader
upgrade_header == ~Idle /\ ~Injects /\ RewriteHeader

(* A write fails, or the command dies: the file stays as it is, with what  *)
(* was appended.                                                           *)
ToolFails(appended) ==
    /\ ~Idle
    /\ Fault
    /\ tool.at # 0 => appended = <<>>
    /\ file' = file \o appended
    /\ tool' = NoTool
    /\ ToolRuns
    /\ UNCHANGED <<root, phase, edits>>

ToolStep ==
    \/ \E t \in InjectedTags, v \in InjectedValues : inject_media_tag(t, v)
    \/ upgrade_ddt_to_alpha21
    \/ inject_block \/ inject_index \/ inject_header
    \/ upgrade_table \/ upgrade_index \/ upgrade_header
    \/ \E appended \in {<<>>, <<Torn>>} : ToolFails(appended)

ToolInit == (Init \/ OldInit) /\ tool = NoTool

ToolNext ==
    \/ Idle /\ Next /\ UNCHANGED tool
    \/ ToolStep

ToolSpec == ToolInit /\ [][ToolNext]_toolVars /\ WF_vars(Idle /\ CloseStep)

(***************************************************************************)
(* Properties.                                                             *)
(***************************************************************************)
(* What an image answers for each slot and flux capture. *)
Answers ==
    LET found == Loaded IN
    [slots |-> [s \in Slots |-> Get(found, s)],
     flux  |-> [k \in Keys |-> read_flux_capture(NoFlux, DiskIndex, k)]]

(* A command changes what an image answers once, with its last write, and  *)
(* then only the tag it was asked to inject: any other tag or block of the *)
(* image is found as before, whatever sessions, failures and commands came *)
(* before; and an upgraded image has no table left that this library does  *)
(* not read.                                                               *)
ToolChangesItsTagAlone ==
    [][tool # NoTool =>
          IF root' = root THEN file' # file => Answers' = Answers
          ELSE /\ Answers' = IF Injects THEN [Answers EXCEPT !.slots[tool.slot] = tool.value]
                                        ELSE Answers
               /\ ~Injects => TablesAreOurs']_toolVars
=============================================================================
