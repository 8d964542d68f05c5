-------------------------------- MODULE IptsHid --------------------------------
(***************************************************************************)
(* From a data buffer of the device to a HID report in user space          *)
(* (hid.c, eds1.c, eds2.c, desc.h): the descriptors, as far as they say    *)
(* how long a report is, the report that is made of a raw frame, and what  *)
(* the HID core accepts.                                                   *)
(*                                                                         *)
(* The receiver hands over one buffer at a time (IptsReceiver); a restart  *)
(* of the driver (IptsLifecycle) disables HID and frees the buffer that    *)
(* reports are made in.  Bytes are not modelled one by one: of a buffer it *)
(* is said how far it is filled, and with which frame.                     *)
(***************************************************************************)
EXTENDS Integers, Sequences, SequencesExt

CONSTANTS
    FrameSizes,     \* the sizes of raw frames, as the device says them
    NativeSizes,    \* the sizes of the reports that the device itself makes
    DataSize        \* ipts->resources.data[].size, which the device asked for

DataHeader == 64    \* sizeof(struct ipts_data_header)
HidHeader == 7      \* sizeof(struct ipts_hid_header)
HidMax == 16384     \* HID_MAX_BUFFER_SIZE

VARIABLES
    core,           \* the HID core: "old", or "safe" since Linux 7.2
    eds,            \* ipts->info.intf_eds: 1 is an older device
    active,         \* ipts->hid_active, with ipts->hid there
    buffer,         \* the buffer handed over: its type, its size and whose frame it is
    filled,         \* how far ipts->resources.report is not zero; Gone once it is freed
    answer,         \* the frame that ipts->feature_report points to
    got,            \* the last report user space has read
    ret             \* what the last call of ipts_hid_input_data returned

dataVars == <<core, eds, active, buffer, filled, answer, got, ret>>

Gone == -1
NoFrame == -1
NoReport == [id |-> 0, frame |-> NoFrame, length |-> 0, end |-> 0, filled |-> 0]

-----------------------------------------------------------------------------
(* Descriptors: the items that decide how long the reports are *)

IPTS_HID_REPORT_SINGLETOUCH == 64
IPTS_HID_REPORT_DATA == 65
IPTS_HID_REPORT_DATA_SIZE == 7485

ipts_singletouch_descriptor ==
    <<<<"ReportID", 64>>, <<"Size", 1>>, <<"Count", 1>>, <<"Input", 0>>, <<"Count", 7>>,
      <<"Input", 0>>, <<"Size", 16>>, <<"Count", 1>>, <<"Push", 0>>, <<"Input", 0>>,
      <<"Input", 0>>, <<"Pop", 0>>>>

ipts_fallback_descriptor ==
    <<<<"ReportID", 65>>, <<"Count", 1>>, <<"Size", 16>>, <<"Input", 0>>, <<"Size", 8>>,
      <<"Count", 7485>>, <<"Input", 0>>, <<"ReportID", 66>>, <<"Size", 8>>, <<"Count", 1>>,
      <<"Feature", 0>>>>

\* The descriptor of a newer device, whose reports carry frames of their own.
NativeDescriptor == <<<<"ReportID", 65>>, <<"Size", 8>>, <<"Count", 7487>>, <<"Input", 0>>>>

\* What the two kinds of devices are described by.
ipts_eds1_get_descriptor == ipts_singletouch_descriptor \o ipts_fallback_descriptor
ipts_eds2_get_descriptor == ipts_singletouch_descriptor \o NativeDescriptor

\* hid_parse_report: one item, with the global items so far and their stack.
Parsed(state, item) ==
    LET tag == item[1]  value == item[2]  g == state.globals IN
    CASE tag = "ReportID" -> [state EXCEPT !.globals.id = value]
      [] tag = "Size"     -> [state EXCEPT !.globals.size = value]
      [] tag = "Count"    -> [state EXCEPT !.globals.count = value]
      [] tag = "Push"     -> [state EXCEPT !.stack = Append(@, g)]
      [] tag = "Pop"      -> [state EXCEPT !.stack = Front(@), !.globals = Last(state.stack)]
      [] tag = "Input"    -> [state EXCEPT !.input[g.id] = @ + g.size * g.count]
      [] tag = "Feature"  -> state

\* The bytes of each input report, its id not counted.
InputSizes(descriptor) ==
    LET start == [globals |-> [id |-> 0, size |-> 0, count |-> 0], stack |-> <<>>,
                  input |-> [id \in 0 .. 255 |-> 0]]
        bits == FoldLeft(Parsed, start, descriptor).input
    IN [id \in 0 .. 255 |-> (bits[id] + 7) \div 8]

ReportSizes ==
    <<InputSizes(ipts_eds1_get_descriptor), InputSizes(ipts_eds2_get_descriptor)>>

\* The device writes no further than the end of a buffer, and asks for buffers with
\* room for the longest report that its descriptor tells of.
ASSUME HidAssumption ==
    /\ FrameSizes \cup NativeSizes \subseteq Nat
    /\ DataSize \in Nat
    /\ \A s \in FrameSizes \cup NativeSizes : DataHeader + s <= DataSize
    /\ \A id \in 0 .. 255 : DataHeader + 1 + ReportSizes[2][id] <= DataSize

\* hid_input_report and hid_safe_input_report: a report that is shorter than its
\* descriptor is padded, by a safe HID core only within the buffer.
Accepts(report, bufsize) ==
    LET rsize == ReportSizes[eds][report.id] IN
    /\ rsize > 0
    /\ core = "safe" /\ report.length - 1 < rsize => bufsize - 1 >= rsize

-----------------------------------------------------------------------------
(* ipts_hid_input_data *)

\* Mutant: the size of the report, as before Linux 7.2.
ReportBufferExact == IPTS_HID_REPORT_DATA_SIZE

\* ipts->resources.report.size.
ReportBuffer == HidMax

\* ipts_hid_input_report.
Deliver(report, bufsize) ==
    IF Accepts(report, bufsize)
    THEN got' = report /\ ret' = "ok"
    ELSE ret' = "refused" /\ UNCHANGED got

\* A report of the device is passed on as it is.
InputNative ==
    /\ buffer.type = "hid"
    /\ Deliver([id |-> buffer.id, frame |-> buffer.frame, length |-> buffer.size,
                end |-> buffer.size, filled |-> buffer.size],
               DataSize - DataHeader)
    /\ UNCHANGED answer

InputFeatures ==
    /\ buffer.type = "features"
    /\ answer' = buffer.frame
    /\ ret' = "ok"
    /\ UNCHANGED got

\* A frame fits into the report that is made of it.
Fits(size) == size + 3 + HidHeader <= IPTS_HID_REPORT_DATA_SIZE

\* Mutant: the report is not cleared.
ClearNot == filled

\* The report is cleared before any look at the buffer.
Cleared == 0

Larger(a, b) == IF a > b THEN a ELSE b

InputFrame ==
    /\ buffer.type = "frame"
    /\ UNCHANGED answer
    /\ IF Fits(buffer.size)
       THEN LET end == 3 + HidHeader + buffer.size IN
            /\ filled' = Larger(Cleared, end)
            /\ Deliver([id |-> IPTS_HID_REPORT_DATA, frame |-> buffer.frame,
                        length |-> IPTS_HID_REPORT_DATA_SIZE, end |-> end,
                        filled |-> filled'],
                       ReportBuffer)
       ELSE filled' = Cleared /\ ret' = "range" /\ UNCHANGED got

InputData ==
    /\ buffer.type # "none"
    /\ buffer' = [buffer EXCEPT !.type = "none"]
    /\ UNCHANGED <<core, eds, active>>
    /\ \/ ~active /\ ret' = "nodev" /\ UNCHANGED <<filled, answer, got>>
       \/ /\ active
          /\ IF buffer.size = 0 \/ buffer.type = "other"
             THEN filled' = Cleared /\ ret' = "ok" /\ UNCHANGED <<answer, got>>
             ELSE \/ filled' = Cleared /\ (InputNative \/ InputFeatures)
                  \/ InputFrame

-----------------------------------------------------------------------------
(* The device, and the driver around it *)

\* An older device sends raw frames, or single touches as reports; a newer one only
\* reports.
Reports ==
    {b \in [type : {"hid"}, size : NativeSizes, frame : {0, 1},
            id : {IPTS_HID_REPORT_SINGLETOUCH}
                   \cup (IF eds = 1 THEN {} ELSE {IPTS_HID_REPORT_DATA})] :
        b.size <= 1 + ReportSizes[eds][b.id]}

Others ==
    [type : {"features", "other"} \cup (IF eds = 1 THEN {"frame"} ELSE {}),
     size : FrameSizes \cup {0}, frame : {0, 1}, id : {0}]

\* The device fills a buffer, and the receiver comes to it.
Fill ==
    /\ buffer.type = "none" /\ filled # Gone
    /\ \E b \in Reports \cup Others : b.frame # buffer.frame /\ buffer' = b
    /\ UNCHANGED <<core, eds, active, filled, answer, got, ret>>

\* ipts_hid_disable; the loop still handles what it has come to.
Disable ==
    /\ active
    /\ active' = FALSE
    /\ UNCHANGED <<core, eds, buffer, filled, answer, got, ret>>

\* ipts_resources_free, once the loop has ended.
Free ==
    /\ ~active /\ buffer.type = "none" /\ filled # Gone
    /\ filled' = Gone
    /\ UNCHANGED <<core, eds, active, buffer, answer, got, ret>>

\* ipts_resources_init; the receiver runs before ipts_hid_enable.
Alloc ==
    /\ filled = Gone
    /\ filled' = 0
    /\ UNCHANGED <<core, eds, active, buffer, answer, got, ret>>

Enable ==
    /\ ~active /\ filled # Gone
    /\ active' = TRUE
    /\ UNCHANGED <<core, eds, buffer, filled, answer, got, ret>>

DataInit ==
    /\ core \in {"old", "safe"} /\ eds \in {1, 2}
    /\ active = FALSE /\ filled = 0
    /\ buffer = [type |-> "none", size |-> 0, id |-> 0, frame |-> 0]
    /\ answer = NoFrame /\ got = NoReport /\ ret = "ok"

DataNext == InputData \/ Fill \/ Disable \/ Free \/ Alloc \/ Enable

-----------------------------------------------------------------------------
(* Properties *)

\* Every report that the device makes and every frame that fits reaches user space
\* as a whole, on any kernel: the HID core finds its report in the descriptor, and
\* one that is shorter than the descriptor says can be padded (hid.c:117, desc.h:17,
\* resources.c:96).
EveryReportArrives ==
    [][InputData /\ active /\ buffer.size > 0
         /\ (buffer.type = "hid" \/ (buffer.type = "frame" /\ Fits(buffer.size)))
       => got'.frame = buffer.frame /\ got'.end <= got'.length]_dataVars

\* A report holds nothing of an earlier, longer frame behind its own (hid.c:149).
NothingStale == got.filled <= got.end
================================================================================
