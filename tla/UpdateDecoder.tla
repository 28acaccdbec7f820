----------------------------- MODULE UpdateDecoder -----------------------------
(***************************************************************************)
(* extract_update_message (messages/update.rs): one step per iteration of  *)
(* its loops.  It runs inside the critical section of the neighbor loop;   *)
(* its steps are separate to show its progress through the buffer.  A      *)
(* result is "ok", "error" (an Err, the message is skipped) or "panic"     *)
(* (the task ends).                                                        *)
(***************************************************************************)
EXTENDS Octets

VARIABLES tsbuf,             \* the bytes read
          pc,                \* where the extraction is, or its result
          current_idx, pa_idx,
          withdrawn_routes, path_attributes, nlri

decoderVars ==
  <<tsbuf, pc, current_idx, pa_idx, withdrawn_routes, path_attributes, nlri>>
extracted == <<withdrawn_routes, path_attributes, nlri>>

Results == {"ok", "error", "panic"}
Extracting == pc \in {"lengths", "withdrawn", "attributes"}

message_len == U16At(tsbuf, 16)
withdrawn_route_len == U16At(tsbuf, 19)
total_path_attribute_len == U16At(tsbuf, 21 + withdrawn_route_len)

base_idx == 21
route_and_len_size == 5

Return(result) ==
  /\ pc' = result
  /\ UNCHANGED <<tsbuf, current_idx, pa_idx, extracted>>

\* What every extraction starts with.
StartExtract ==
  /\ pc' = "lengths"
  /\ current_idx' = 0 /\ pa_idx' = 0
  /\ withdrawn_routes' = <<>> /\ path_attributes' = <<>> /\ nlri' = <<>>

ExtractLengths ==
  /\ pc = "lengths"
  /\ \/ ~(Has(tsbuf, base_idx) /\ message_len >= 23) /\ Return("error")
     \/ /\ Has(tsbuf, base_idx) /\ message_len >= 23
        /\ pc' = "withdrawn"
        /\ current_idx' = base_idx
        /\ UNCHANGED <<tsbuf, pa_idx, extracted>>

-----------------------------------------------------------------------------
(* Withdrawn routes                                                        *)

\* The loop counts routes of five octets, whatever they take.
WithdrawnEnd ==
  base_idx + route_and_len_size * (withdrawn_route_len \div route_and_len_size)

WithdrawnRoute(stride) ==
  /\ pc = "withdrawn" /\ current_idx < WithdrawnEnd
  /\ \/ ~Has(tsbuf, current_idx + 1) /\ Return("error")
     \/ /\ Has(tsbuf, current_idx + 1) /\ ~PrefixFits(tsbuf, current_idx)
        /\ Return("panic")
     \/ /\ Has(tsbuf, current_idx + 1) /\ PrefixFits(tsbuf, current_idx)
        /\ withdrawn_routes' = withdrawn_routes \o PrefixAt(tsbuf, current_idx)
        /\ current_idx' = current_idx + stride
        /\ UNCHANGED <<tsbuf, pc, pa_idx, path_attributes, nlri>>

\* Mutant: the stride leaves out the length.
ExtractWithdrawnRouteByFour == WithdrawnRoute(4)

ExtractWithdrawnRoute == WithdrawnRoute(route_and_len_size)

ExtractAttributesLen ==
  /\ pc = "withdrawn" /\ current_idx >= WithdrawnEnd
  /\ LET after == base_idx + withdrawn_route_len + 2 IN
     \/ ~Has(tsbuf, after) /\ Return("error")
     \/ /\ Has(tsbuf, after)
        /\ pc' = "attributes"
        /\ current_idx' = after
        /\ UNCHANGED <<tsbuf, pa_idx, extracted>>

-----------------------------------------------------------------------------
(* Path attributes                                                         *)

\* At current_idx: flags, type code, a length of one octet whatever the flags
\* say, and the data, of which the octets the buffer has are taken.
TypeCode == At(tsbuf, current_idx + 1)
DataLen == At(tsbuf, current_idx + 2)
Data ==
  LET end == current_idx + 3 + DataLen IN
  SubSeq(tsbuf, current_idx + 4, IF Has(tsbuf, end) THEN end ELSE Len(tsbuf))

\* Mutant: the range of type codes leaves out its end.
AttributeFitsBelowSeven ==
  /\ Has(tsbuf, current_idx + 3)
  /\ current_idx + 3 + DataLen < message_len
  /\ TypeCode \in 1..6

\* After each field the index must stay below the end of the message, after the
\* data too: an attribute cannot be the last thing in it.
AttributeFits ==
  /\ Has(tsbuf, current_idx + 3)
  /\ current_idx + 3 + DataLen < message_len
  /\ TypeCode \in 1..7

\* AsPath::from_vec_u8: of all segments the first.
AsPathFits(d, width) ==
  d[1] \in {1, 2} /\ Len(d) >= 2 /\ 2 + width * d[2] <= Len(d)

\* Mutant: the count is taken for the first octet of an AS number.
AsPathDataFromCount(d, width) ==
  [segment_type |-> d[1],
   as_list |-> [k \in 1..d[2] |-> SubSeq(d, 2 + width * (k - 1), 1 + width * k)]]

AsPathData(d, width) ==
  [segment_type |-> d[1],
   as_list |-> [k \in 1..d[2] |-> SubSeq(d, 3 + width * (k - 1), 2 + width * k)]]

\* PAdata::from_vec_u8, and PathAttribute::new, which has no arm for LocalPref.
PAdataPanics(code, d, width) ==
  CASE code = 1 -> d[1] > 2
    [] code = 2 -> ~AsPathFits(d, width)
    [] code \in {3, 4} -> Len(d) < 4
    [] code = 5 -> TRUE
    [] code = 6 -> FALSE
    [] code = 7 -> Len(d) < width + 4

PAdata(code, d, width) ==
  CASE code = 1 -> d[1]
    [] code = 2 -> AsPathData(d, width)
    [] code \in {3, 4} -> SubSeq(d, 1, 4)
    [] code = 6 -> <<>>
    [] code = 7 -> <<SubSeq(d, 1, width), SubSeq(d, width + 1, width + 4)>>

ExtractAttribute(width) ==
  /\ pc = "attributes" /\ pa_idx < total_path_attribute_len
  /\ \/ ~AttributeFits /\ Return("error")
     \/ /\ AttributeFits /\ Data # <<>> /\ PAdataPanics(TypeCode, Data, width)
        /\ Return("panic")
     \/ /\ AttributeFits
        /\ Data # <<>> => ~PAdataPanics(TypeCode, Data, width)
        /\ pa_idx' = pa_idx + 3 + DataLen
        /\ current_idx' = current_idx + 3 + DataLen
        /\ path_attributes' =
             IF Data = <<>> THEN path_attributes
             ELSE Append(path_attributes, [code |-> TypeCode,
                           data |-> PAdata(TypeCode, Data, width)])
        /\ UNCHANGED <<tsbuf, pc, withdrawn_routes, nlri>>

-----------------------------------------------------------------------------
(* NLRI                                                                    *)

AttributesRead == pc = "attributes" /\ pa_idx >= total_path_attribute_len

OnlyWithdraws ==
  withdrawn_route_len >= route_and_len_size /\ total_path_attribute_len = 0

\* UpdateMessage::new checks the length of the message.
Extracted(found) ==
  /\ pc' = IF message_len <= MaxMessageLen THEN "ok" ELSE "error"
  /\ nlri' = found
  /\ UNCHANGED <<tsbuf, current_idx, pa_idx, withdrawn_routes, path_attributes>>

FinishWithdrawal == AttributesRead /\ OnlyWithdraws /\ Extracted(<<>>)

\* extract_nlri_from_update_message reads one prefix, however many follow.
ExtractNlri ==
  /\ AttributesRead /\ ~OnlyWithdraws
  /\ \/ /\ current_idx = message_len \/ ~Has(tsbuf, current_idx + 1)
        /\ Return("error")
     \/ /\ current_idx # message_len /\ Has(tsbuf, current_idx + 1)
        /\ ~PrefixFits(tsbuf, current_idx)
        /\ Return("panic")
     \/ /\ current_idx # message_len /\ Has(tsbuf, current_idx + 1)
        /\ PrefixFits(tsbuf, current_idx)
        /\ Extracted(PrefixAt(tsbuf, current_idx))

ExtractStep(width) ==
  \/ ExtractLengths
  \/ ExtractWithdrawnRoute
  \/ ExtractAttributesLen
  \/ ExtractAttribute(width)
  \/ FinishWithdrawal
  \/ ExtractNlri

=============================================================================
