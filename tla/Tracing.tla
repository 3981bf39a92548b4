------------------------------- MODULE Tracing -------------------------------
(***************************************************************************)
(* Meta data, the contexts that carry them, and the span in them (packages *)
(* md and tracing).  Meta data are functions from keys to values; nil and  *)
(* empty ones are not distinguished.  A span is named for what it is of.   *)
(* All the middlewares have one tracer, which reads what it has written.   *)
(***************************************************************************)

TracingMDKey == "nptracing"
NoSpan == "none"
\* A value of the tracing key that the tracer cannot read.
Corrupt == "corrupt"
NoMD == [k \in {} |-> ""]

\* Contexts: the meta data attached for what is called with the context, and those
\* that came with the call it is the context of.
Background == [outgoing |-> NoMD, incoming |-> NoMD]
NewOutgoingContextWithMD(ctx, md) == [ctx EXCEPT !.outgoing = md]
NewIncomingContextWithMD(ctx, md) == [ctx EXCEPT !.incoming = md]

MDFromOutgoingContext_Any(ctx) ==
  IF ctx.outgoing = NoMD THEN ctx.incoming ELSE ctx.outgoing
MDFromOutgoingContext(ctx) == ctx.outgoing
MDFromIncomingContext(ctx) == ctx.incoming

\* InjectSpanCtx, if the tracer can inject: a tracingMD, in which the tracing key is that of the span.
InjectSpanCtx_KeepsOld(md, s) ==
  [k \in DOMAIN md \cup {TracingMDKey} |-> IF k \in DOMAIN md THEN md[k] ELSE s]
InjectSpanCtx(md, s) ==
  [k \in DOMAIN md \cup {TracingMDKey} |-> IF k = TracingMDKey THEN s ELSE md[k]]

\* ExtractSpanCtx: the set of its results, empty when it returns an error.
ExtractSpanCtx(md) ==
  IF TracingMDKey \in DOMAIN md THEN {md[TracingMDKey]} \ {Corrupt} ELSE {NoSpan}
=============================================================================
