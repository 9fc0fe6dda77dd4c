----------------------------- MODULE TokenTrace -----------------------------
(***************************************************************************)
(* Denominations and their traces (ICS-20 types), and the text they travel *)
(* as.  A text is the sequence of its parts between slashes.  A trace path *)
(* is kept as the code keeps it, reversed: the hop added last is at the    *)
(* end.  A base denomination is a text of its own: BaseDenom::from_str     *)
(* accepts slashes.  A parser returns the set of its results, empty when   *)
(* it fails.                                                               *)
(***************************************************************************)
EXTENDS Integers, Sequences, SequencesExt

CONSTANTS
  PortIds, ChannelIds,   \* the parts PortId and ChannelId::from_str accept
  Blank                  \* a part with nothing but white space

TracePrefix(port, chan) == <<port, chan>>

\* TracePath: starts_with, remove_prefix, add_prefix look at the end.
starts_with(trace, prefix) == trace # <<>> /\ Last(trace) = prefix
remove_prefix(trace, prefix) ==
  IF starts_with(trace, prefix) THEN Front(trace) ELSE trace
add_prefix(trace, prefix) == Append(trace, prefix)

\* PrefixedDenom::remove_trace_prefix and add_trace_prefix.
remove_trace_prefix(denom, prefix) ==
  [denom EXCEPT !.trace = remove_prefix(@, prefix)]

add_trace_prefix(denom, prefix) ==
  [denom EXCEPT !.trace = add_prefix(@, prefix)]

is_receiver_chain_source(port, chan, denom) ==
  starts_with(denom.trace, TracePrefix(port, chan))
is_sender_chain_source(port, chan, denom) ==
  ~ is_receiver_chain_source(port, chan, denom)

----------------------------------------------------------------------------
\* Texts.

BaseDenomFromStr(text) == IF text = <<Blank>> THEN {} ELSE {text}

\* Display for TracePath: the hops from the last to the first.
TraceToText(trace) ==
  LET n == Len(trace) IN
  [i \in 1..(2 * n) |-> trace[n - ((i - 1) \div 2)][1 + ((i - 1) % 2)]]

\* TryFrom<Vec<&str>> for TracePath: pairs of identifiers, reversed.
TraceFromParts(parts) ==
  LET n == Len(parts) \div 2
      Pair(i) == TracePrefix(parts[2 * (n - i) + 1], parts[2 * (n - i) + 2])
  IN  IF /\ Len(parts) % 2 = 0
         /\ \A i \in 1..n : Pair(i)[1] \in PortIds /\ Pair(i)[2] \in ChannelIds
      THEN {[i \in 1..n |-> Pair(i)]} ELSE {}

\* Display for PrefixedDenom: an empty trace leaves no slash behind.
DenomToText(denom) == TraceToText(denom.trace) \o denom.base

\* FromStr for PrefixedDenom: the last part is the base, the others the trace.
DenomFromStr(text) ==
  {[trace |-> t, base |-> b] :
     t \in TraceFromParts(Front(text)), b \in BaseDenomFromStr(<<Last(text)>>)}
=============================================================================
