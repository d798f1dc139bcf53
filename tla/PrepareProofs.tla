----------------------------- MODULE PrepareProofs -----------------------------
(***************************************************************************)
(* What prepare makes durable, for any number of processes, arguments,     *)
(* secrets and faults.                                                     *)
(***************************************************************************)
EXTENDS Prepare, QuotesProofs

\* The steps of a process that has the content of the key file.
Keyed ==
    {"chains", "load", "create", "fill", "lookup", "invoice", "exists", "write", "fillIntent"}

\* Of one that has drawn a record, and of one whose record is in the file.
Drawn == {"create", "fill"}
Loaded == {"lookup", "invoice", "exists", "write", "fillIntent"}

\* Of one that has seen the invoice of its record.
Invoiced == {"exists", "write", "fillIntent"}

\* What a process may rely on, whatever the others do.
At(p) ==
    /\ pc[p] = "fillKey" => loc[p].key \in Keys
    /\ pc[p] \in Keyed => keyFile \in Keys /\ loc[p].key = keyFile
    /\ pc[p] \in {"load"} \cup Drawn \cup Loaded =>
            /\ loc[p].now \in Nat
            /\ \E source \in 0..MaxHeight : loc[p].context = Context(loc[p].args, source, Tip, loc[p].now)
            /\ LeavesMargin(loc[p].context)
    /\ pc[p] \in Drawn \cup Loaded =>
            /\ loc[p].record \in Records
            /\ loc[p].record.key = keyFile
            /\ loc[p].record.terms = Terms(loc[p].args)
    /\ pc[p] \in Loaded => loc[p].record = recovery
    /\ pc[p] \in Invoiced => invoice[loc[p].record.hash] # None

\* A file that is being filled is filled by one process only.
OneWriter ==
    /\ \A p \in Procs : pc[p] = "fillKey" => keyFile = Partial
    /\ \A p \in Procs : pc[p] = "fill" => recovery = Partial
    /\ \A p, q \in Procs : pc[p] = pc[q] /\ pc[p] \in {"fillKey", "fill"} => p = q

\* The record on disk can be decrypted with the key on disk.
Decrypts == Whole(recovery) => keyFile \in Keys /\ recovery.key = keyFile

NamesHash == Whole(intentFile) => intentFile.hash_commitment \in Hashes

IInv ==
    /\ TypeOK /\ SecretIsDurable /\ Decrypts /\ NamesHash /\ OneWriter
    /\ \A p \in Procs : At(p)

-------------------------------------------------------------------------------
USE NumbersAssumption, FilesAssumption

\* The deadlines are natural numbers.
LEMMA ContextType ==
    ASSUME NEW args \in Arguments, NEW source \in Nat, NEW time \in Nat
    PROVE  Context(args, source, Tip, time) \in [ContextFields -> Nat]
<1>1. /\ args.source_refund_delta \in Nat /\ args.lightning_max_cltv \in Nat
      /\ args.margin_seconds \in Nat
  BY DEF ArgumentFields
<1>2. /\ Blocks(args.source_refund_delta, LiquidSeconds) \in Nat
      /\ Blocks(args.lightning_max_cltv, BitcoinSeconds) \in Nat
  BY <1>1 DEF Blocks
<1> QED
  BY <1>1, <1>2 DEF Context, ContextFields

(* Files, invoices and the locals of every process keep their types, and a  *)
(* process that has ended holds nothing.                                    *)
LEMMA TypeInit == Init => TypeOK
  BY DEF Init, TypeOK, Steps

LEMMA TypeStep == IInv /\ [Next]_vars => TypeOK'
<1> SUFFICES ASSUME TypeOK, \A p \in Procs : At(p), [Next]_vars PROVE TypeOK'
  BY DEF IInv
<1> USE DEF fileVars, worldVars
<1>1. ASSUME NEW p \in Procs, KeyExists(p)
      PROVE  TypeOK'
  BY <1>1 DEF TypeOK, Steps, Locals, Advance, Goto, KeyExists
<1>2. ASSUME NEW p \in Procs, ReadKey(p)
      PROVE  TypeOK'
  BY <1>2 DEF TypeOK, Steps, Locals, Advance, Goto, ReadKey, Whole
<1>3. ASSUME NEW p \in Procs, CreateKey(p)
      PROVE  TypeOK'
  BY <1>3 DEF TypeOK, Steps, Locals, Advance, Goto, CreateKey
<1>4. ASSUME NEW p \in Procs, FillKey(p)
      PROVE  TypeOK'
  BY <1>4 DEF TypeOK, Steps, Locals, Advance, Goto, FillKey
<1>5. ASSUME NEW p \in Procs, ReadChains(p)
      PROVE  TypeOK'
  <2>1. loc[p] \in Locals
    BY <1>5 DEF TypeOK, ReadChains
  <2>2. Context(loc[p].args, height, Tip, now) \in [ContextFields -> Nat]
    BY <2>1, ContextType DEF TypeOK, Locals
  <2> QED
    BY <1>5, <2>1, <2>2 DEF TypeOK, Steps, Locals, Goto, ReadChains
<1>6. ASSUME NEW p \in Procs, LoadRecovery(p)
      PROVE  TypeOK'
  <2>1. loc[p] \in Locals /\ loc[p].key \in Keys /\ loc[p].context \in [ContextFields -> Nat]
    BY <1>6, ContextType DEF TypeOK, At, Keyed, LoadRecovery, Locals
  <2>2. \A h \in Hashes : Record(p, h) \in Records
    BY <2>1 DEF Record, Records, Locals, ContextFields
  <2>3. Unseen # {} => Record(p, CHOOSE h \in Unseen : TRUE) \in Records
    BY <2>2 DEF Unseen
  <2> QED
    BY <1>6, <2>1, <2>3 DEF TypeOK, Steps, Locals, Goto, LoadRecovery, Whole
<1>7. ASSUME NEW p \in Procs, CreateRecovery(p)
      PROVE  TypeOK'
  BY <1>7 DEF TypeOK, Steps, Locals, Advance, Goto, CreateRecovery
<1>8. ASSUME NEW p \in Procs, FillRecovery(p)
      PROVE  TypeOK'
  BY <1>8 DEF TypeOK, Steps, Locals, Advance, Goto, FillRecovery
<1>9. ASSUME NEW p \in Procs, LookupInvoice(p)
      PROVE  TypeOK'
  BY <1>9 DEF TypeOK, Steps, Locals, Advance, Goto, LookupInvoice
<1>10. ASSUME NEW p \in Procs, CreateInvoice(p)
      PROVE  TypeOK'
  <2>1. loc[p] \in Locals /\ loc[p].args.amount_out \in Nat
    BY <1>10 DEF TypeOK, CreateInvoice, Locals, ArgumentFields
  <2> QED
    BY <1>10, <2>1 DEF TypeOK, Steps, Invoices, Goto, CreateInvoice
<1>11. ASSUME NEW p \in Procs, IntentExists(p)
      PROVE  TypeOK'
  BY <1>11 DEF TypeOK, Steps, Locals, Advance, Goto, IntentExists
<1>12. ASSUME NEW p \in Procs, TruncateIntent(p)
      PROVE  TypeOK'
  BY <1>12 DEF TypeOK, Steps, Locals, Advance, Goto, TruncateIntent
<1>13. ASSUME NEW p \in Procs, FillIntent(p)
      PROVE  TypeOK'
  BY <1>13 DEF TypeOK, Steps, Locals, Advance, Goto, FillIntent
<1>14. ASSUME NEW p \in Procs, Stop(p)
      PROVE  TypeOK'
  BY <1>14 DEF TypeOK, Steps, Stop
<1>15. ASSUME NEW p \in Procs, NEW args \in Arguments, Start(p, args)
      PROVE  TypeOK'
  BY <1>15 DEF TypeOK, Steps, Locals, Goto, Start
<1>16. CASE LiquidBlock
  BY <1>16 DEF TypeOK, LiquidBlock
<1>17. ASSUME NEW h \in Hashes, InvoiceExpires(h)
      PROVE  TypeOK'
  BY <1>17 DEF TypeOK, Invoices, InvoiceExpires
<1>18. CASE UNCHANGED vars
  BY <1>18 DEF TypeOK, vars
<1> QED
  BY <1>1, <1>2, <1>3, <1>4, <1>5, <1>6, <1>7, <1>8, <1>9, <1>10, <1>11, <1>12, <1>13, <1>14, <1>15, <1>16, <1>17, <1>18 DEF Next, Step

-------------------------------------------------------------------------------
\* What is on disk or at the node once is never taken back or replaced.
Grows ==
    /\ keyFile \in Keys => keyFile' = keyFile
    /\ Whole(recovery) => recovery' = recovery
    /\ \A h \in Hashes : invoice[h] # None => invoice'[h] # None

LEMMA GrowsStep == IInv /\ [Next]_vars => Grows
<1> SUFFICES ASSUME TypeOK, OneWriter, [Next]_vars PROVE Grows
  BY DEF IInv
<1> USE DEF fileVars, worldVars
<1>1. ASSUME NEW p \in Procs, KeyExists(p)
      PROVE  Grows
  BY <1>1 DEF Grows, Whole, TypeOK, OneWriter, Goto, Advance, KeyExists
<1>2. ASSUME NEW p \in Procs, ReadKey(p)
      PROVE  Grows
  BY <1>2 DEF Grows, Whole, TypeOK, OneWriter, Goto, Advance, ReadKey
<1>3. ASSUME NEW p \in Procs, CreateKey(p)
      PROVE  Grows
  BY <1>3 DEF Grows, Whole, TypeOK, OneWriter, Goto, Advance, CreateKey
<1>4. ASSUME NEW p \in Procs, FillKey(p)
      PROVE  Grows
  BY <1>4 DEF Grows, Whole, TypeOK, OneWriter, Goto, Advance, FillKey
<1>5. ASSUME NEW p \in Procs, ReadChains(p)
      PROVE  Grows
  BY <1>5 DEF Grows, Whole, TypeOK, OneWriter, Goto, Advance, ReadChains
<1>6. ASSUME NEW p \in Procs, LoadRecovery(p)
      PROVE  Grows
  BY <1>6 DEF Grows, Whole, TypeOK, OneWriter, Goto, Advance, LoadRecovery
<1>7. ASSUME NEW p \in Procs, CreateRecovery(p)
      PROVE  Grows
  BY <1>7 DEF Grows, Whole, TypeOK, OneWriter, Goto, Advance, CreateRecovery
<1>8. ASSUME NEW p \in Procs, FillRecovery(p)
      PROVE  Grows
  BY <1>8 DEF Grows, Whole, TypeOK, OneWriter, Goto, Advance, FillRecovery
<1>9. ASSUME NEW p \in Procs, LookupInvoice(p)
      PROVE  Grows
  BY <1>9 DEF Grows, Whole, TypeOK, OneWriter, Goto, Advance, LookupInvoice
<1>10. ASSUME NEW p \in Procs, CreateInvoice(p)
      PROVE  Grows
  BY <1>10 DEF Grows, Whole, TypeOK, OneWriter, Goto, Advance, CreateInvoice
<1>11. ASSUME NEW p \in Procs, IntentExists(p)
      PROVE  Grows
  BY <1>11 DEF Grows, Whole, TypeOK, OneWriter, Goto, Advance, IntentExists
<1>12. ASSUME NEW p \in Procs, TruncateIntent(p)
      PROVE  Grows
  BY <1>12 DEF Grows, Whole, TypeOK, OneWriter, Goto, Advance, TruncateIntent
<1>13. ASSUME NEW p \in Procs, FillIntent(p)
      PROVE  Grows
  BY <1>13 DEF Grows, Whole, TypeOK, OneWriter, Goto, Advance, FillIntent
<1>14. ASSUME NEW p \in Procs, Stop(p)
      PROVE  Grows
  BY <1>14 DEF Grows, Whole, TypeOK, OneWriter, Stop
<1>15. ASSUME NEW p \in Procs, NEW args \in Arguments, Start(p, args)
      PROVE  Grows
  BY <1>15 DEF Grows, Whole, TypeOK, OneWriter, Goto, Start
<1>16. CASE LiquidBlock
  BY <1>16 DEF Grows, Whole, TypeOK, OneWriter, LiquidBlock
<1>17. ASSUME NEW h \in Hashes, InvoiceExpires(h)
      PROVE  Grows
  <2>1. invoice[h] \in Invoices /\ [invoice[h] EXCEPT !.state = "CANCELED"] \in Invoices
    BY <1>17 DEF TypeOK, Invoices, InvoiceExpires
  <2> QED
    BY <1>17, <2>1 DEF Grows, Whole, TypeOK, InvoiceExpires
<1>18. CASE UNCHANGED vars
  BY <1>18 DEF Grows, Whole, TypeOK, OneWriter, vars
<1> QED
  BY <1>1, <1>2, <1>3, <1>4, <1>5, <1>6, <1>7, <1>8, <1>9, <1>10, <1>11, <1>12, <1>13, <1>14, <1>15, <1>16, <1>17, <1>18 DEF Next, Step

LEMMA OneWriterStep == IInv /\ [Next]_vars => OneWriter'
<1> SUFFICES ASSUME TypeOK, OneWriter, [Next]_vars PROVE OneWriter'
  BY DEF IInv
<1> USE DEF fileVars, worldVars
<1>1. ASSUME NEW p \in Procs, KeyExists(p)
      PROVE  OneWriter'
  BY <1>1 DEF OneWriter, TypeOK, Goto, Advance, KeyExists
<1>2. ASSUME NEW p \in Procs, ReadKey(p)
      PROVE  OneWriter'
  BY <1>2 DEF OneWriter, TypeOK, Goto, Advance, ReadKey
<1>3. ASSUME NEW p \in Procs, CreateKey(p)
      PROVE  OneWriter'
  BY <1>3 DEF OneWriter, TypeOK, Goto, Advance, CreateKey
<1>4. ASSUME NEW p \in Procs, FillKey(p)
      PROVE  OneWriter'
  BY <1>4 DEF OneWriter, TypeOK, Goto, Advance, FillKey
<1>5. ASSUME NEW p \in Procs, ReadChains(p)
      PROVE  OneWriter'
  BY <1>5 DEF OneWriter, TypeOK, Goto, Advance, ReadChains
<1>6. ASSUME NEW p \in Procs, LoadRecovery(p)
      PROVE  OneWriter'
  BY <1>6 DEF OneWriter, TypeOK, Goto, Advance, LoadRecovery
<1>7. ASSUME NEW p \in Procs, CreateRecovery(p)
      PROVE  OneWriter'
  BY <1>7 DEF OneWriter, TypeOK, Goto, Advance, CreateRecovery
<1>8. ASSUME NEW p \in Procs, FillRecovery(p)
      PROVE  OneWriter'
  BY <1>8 DEF OneWriter, TypeOK, Goto, Advance, FillRecovery
<1>9. ASSUME NEW p \in Procs, LookupInvoice(p)
      PROVE  OneWriter'
  BY <1>9 DEF OneWriter, TypeOK, Goto, Advance, LookupInvoice
<1>10. ASSUME NEW p \in Procs, CreateInvoice(p)
      PROVE  OneWriter'
  BY <1>10 DEF OneWriter, TypeOK, Goto, Advance, CreateInvoice
<1>11. ASSUME NEW p \in Procs, IntentExists(p)
      PROVE  OneWriter'
  BY <1>11 DEF OneWriter, TypeOK, Goto, Advance, IntentExists
<1>12. ASSUME NEW p \in Procs, TruncateIntent(p)
      PROVE  OneWriter'
  BY <1>12 DEF OneWriter, TypeOK, Goto, Advance, TruncateIntent
<1>13. ASSUME NEW p \in Procs, FillIntent(p)
      PROVE  OneWriter'
  BY <1>13 DEF OneWriter, TypeOK, Goto, Advance, FillIntent
<1>14. ASSUME NEW p \in Procs, Stop(p)
      PROVE  OneWriter'
  BY <1>14 DEF OneWriter, TypeOK, Stop
<1>15. ASSUME NEW p \in Procs, NEW args \in Arguments, Start(p, args)
      PROVE  OneWriter'
  BY <1>15 DEF OneWriter, TypeOK, Goto, Start
<1>16. CASE LiquidBlock
  BY <1>16 DEF OneWriter, TypeOK, LiquidBlock
<1>17. ASSUME NEW h \in Hashes, InvoiceExpires(h)
      PROVE  OneWriter'
  BY <1>17 DEF OneWriter, TypeOK, InvoiceExpires
<1>18. CASE UNCHANGED vars
  BY <1>18 DEF OneWriter, TypeOK, vars
<1> QED
  BY <1>1, <1>2, <1>3, <1>4, <1>5, <1>6, <1>7, <1>8, <1>9, <1>10, <1>11, <1>12, <1>13, <1>14, <1>15, <1>16, <1>17, <1>18 DEF Next, Step

\* A process that does not move keeps what it may rely on.
LEMMA AtStays ==
    ASSUME IInv, Grows, NEW q \in Procs, pc'[q] = pc[q], loc'[q] = loc[q]
    PROVE  At(q)'
<1>1. TypeOK /\ At(q)
  BY DEF IInv
<1>2. loc[q].record \in Records => loc[q].record.hash \in Hashes /\ Whole(loc[q].record)
  BY DEF Records, Whole
<1>3. Loaded \subseteq Keyed /\ Drawn \subseteq Keyed /\ Invoiced \subseteq Loaded
  BY DEF Loaded, Keyed, Drawn, Invoiced
<1> QED
  BY <1>1, <1>2, <1>3 DEF At, Grows

\* A process that moves has what its next step relies on.
LEMMA MoverStep ==
    ASSUME IInv, NEW p \in Procs, Step(p)
    PROVE  At(p)'
<1> USE DEF fileVars, worldVars, Keyed, Drawn, Loaded, Invoiced
<1>0. TypeOK /\ At(p) /\ OneWriter /\ SecretIsDurable /\ Decrypts
  BY DEF IInv
<1>1. CASE KeyExists(p)
  BY <1>0, <1>1 DEF At, TypeOK, Goto, Advance, KeyExists
<1>2. CASE ReadKey(p)
  <2>1. loc[p] \in Locals /\ (Whole(keyFile) => keyFile \in Keys)
    BY <1>0, <1>2 DEF TypeOK, ReadKey, Whole
  <2> QED
    BY <1>0, <1>2, <2>1 DEF At, TypeOK, Locals, Goto, ReadKey
<1>3. CASE CreateKey(p)
  <2>1. loc[p] \in Locals
    BY <1>0, <1>3 DEF TypeOK, CreateKey
  <2> QED
    BY <1>0, <1>3, <2>1 DEF At, TypeOK, Locals, Goto, CreateKey
<1>4. CASE FillKey(p)
  BY <1>0, <1>4 DEF At, TypeOK, Goto, Advance, FillKey
<1>5. CASE ReadChains(p)
  BY <1>0, <1>5 DEF At, TypeOK, Goto, Advance, ReadChains
<1>6. CASE LoadRecovery(p)
  <2>1. loc[p] \in Locals /\ loc[p].key = keyFile /\ loc[p].key \in Keys
    BY <1>0, <1>6 DEF TypeOK, At, LoadRecovery
  <2>2. loc[p].context \in [ContextFields -> Nat] /\ LeavesMargin(loc[p].context)
    BY <1>0, <1>6, <2>1, ContextType DEF At, LoadRecovery, Locals
  <2>3. \A h \in Hashes : /\ Record(p, h) \in Records
                          /\ Record(p, h).key = loc[p].key
                          /\ Record(p, h).terms = Terms(loc[p].args)
    BY <2>1, <2>2 DEF Record, Records, Locals, ContextFields
  <2>4. ASSUME NEW record \in Records, record.key = loc[p].key,
               record.terms = Terms(loc[p].args),
               pc'[p] \in {"idle", "create", "lookup"},
               pc'[p] = "lookup" => record = recovery,
               pc'[p] # "idle" => loc'[p] = [loc[p] EXCEPT !.record = record],
               UNCHANGED keyFile, UNCHANGED recovery
        PROVE  At(p)'
    <3>1. \A f \in {"args", "key", "context", "now"} :
                [loc[p] EXCEPT !.record = record][f] = loc[p][f]
      BY <2>1 DEF Locals
    <3>2. [loc[p] EXCEPT !.record = record].record = record
      BY <2>1 DEF Locals
    <3>3. /\ loc[p].now \in Nat
          /\ \E source \in 0..MaxHeight : loc[p].context = Context(loc[p].args, source, Tip, loc[p].now)
      BY <1>0, <1>6 DEF At, LoadRecovery
    <3> QED
      BY <2>1, <2>2, <2>4, <3>1, <3>2, <3>3 DEF At
  <2>5. CASE Positive(p) /\ recovery = None
    <3>1. PICK h \in Hashes : /\ pc'[p] = "create"
                              /\ loc'[p] = [loc[p] EXCEPT !.record = Record(p, h)]
      BY <1>0, <1>6, <2>5 DEF LoadRecovery, Unseen, Goto, TypeOK
    <3> QED
      BY <1>6, <2>1, <2>3, <2>4, <3>1 DEF LoadRecovery
  <2>6. CASE Positive(p) /\ Whole(recovery) /\ ValidateRecovery(p)
    <3>1. recovery \in Records
      BY <1>0, <2>6 DEF TypeOK, Whole
    <3> QED
      BY <1>0, <1>6, <2>1, <2>4, <2>6, <3>1
         DEF LoadRecovery, ValidateRecovery, Whole, Goto, TypeOK
  <2>7. CASE ~Positive(p) \/ (recovery # None /\ ~(Whole(recovery) /\ ValidateRecovery(p)))
    BY <1>0, <1>6, <2>7 DEF LoadRecovery, At, Goto, TypeOK
  <2> QED
    BY <2>5, <2>6, <2>7 DEF Whole
<1>7. CASE CreateRecovery(p)
  BY <1>0, <1>7 DEF At, TypeOK, Goto, Advance, CreateRecovery
<1>8. CASE FillRecovery(p)
  BY <1>0, <1>8 DEF At, TypeOK, Goto, Advance, FillRecovery
<1>9. CASE LookupInvoice(p)
  BY <1>0, <1>9 DEF At, TypeOK, Goto, Advance, LookupInvoice
<1>10. CASE CreateInvoice(p)
  <2>1. loc[p] \in Locals /\ loc[p].record \in Records /\ loc[p].record.hash \in Hashes
    BY <1>0, <1>10 DEF TypeOK, At, CreateInvoice, Records
  <2>2. [amount_sats |-> loc[p].args.amount_out, state |-> "OPEN"] \in Invoices
    BY <2>1 DEF Locals, Invoices, ArgumentFields
  <2> QED
    BY <1>0, <1>10, <2>1, <2>2 DEF At, TypeOK, Goto, CreateInvoice
<1>11. CASE IntentExists(p)
  BY <1>0, <1>11 DEF At, TypeOK, Goto, Advance, IntentExists
<1>12. CASE TruncateIntent(p)
  BY <1>0, <1>12 DEF At, TypeOK, Goto, Advance, TruncateIntent
<1>13. CASE FillIntent(p)
  BY <1>0, <1>13 DEF At, TypeOK, Goto, Advance, FillIntent
<1> QED
  BY <1>1, <1>2, <1>3, <1>4, <1>5, <1>6, <1>7, <1>8, <1>9, <1>10, <1>11, <1>12, <1>13 DEF Step

LEMMA AtStep == IInv /\ [Next]_vars => \A q \in Procs : At(q)'
<1> SUFFICES ASSUME IInv, [Next]_vars, NEW q \in Procs PROVE At(q)'
  OBVIOUS
<1>0. TypeOK /\ Grows
  BY GrowsStep DEF IInv
<1> USE DEF fileVars, worldVars
<1>1. ASSUME NEW p \in Procs, Step(p), p # q
      PROVE  pc'[q] = pc[q] /\ loc'[q] = loc[q]
  BY <1>0, <1>1 DEF TypeOK, Step, Advance, Goto, KeyExists, ReadKey, CreateKey, FillKey,
     ReadChains, LoadRecovery, CreateRecovery, FillRecovery, LookupInvoice, CreateInvoice,
     IntentExists, TruncateIntent, FillIntent
<1>2. CASE Step(q)
  BY <1>2, MoverStep
<1>3. ASSUME NEW p \in Procs, Stop(p) \/ \E args \in Arguments : Start(p, args)
      PROVE  pc'[q] \in {"idle", "key"} \/ (pc'[q] = pc[q] /\ loc'[q] = loc[q])
  BY <1>0, <1>3 DEF TypeOK, Stop, Start, Goto
<1>4. ASSUME pc'[q] \in {"idle", "key"}
      PROVE  At(q)'
  BY <1>4 DEF At, Keyed, Drawn, Loaded, Invoiced
<1>5. CASE LiquidBlock \/ (\E h \in Hashes : InvoiceExpires(h)) \/ UNCHANGED vars
  BY <1>0, <1>5, AtStays DEF LiquidBlock, InvoiceExpires, vars
<1> QED
  BY <1>0, <1>1, <1>2, <1>3, <1>4, <1>5, AtStays DEF Next

-------------------------------------------------------------------------------
\* The hash of every intent that is written is that of the record on disk.
LEMMA FilledIntent ==
    ASSUME IInv, NEW p \in Procs, FillIntent(p), Whole(intentFile')
    PROVE  /\ intentFile' = BuildIntent(p)
           /\ BuildIntent(p).hash_commitment = recovery.hash
           /\ recovery.hash \in Hashes
           /\ invoice[recovery.hash] # None
<1>1. pc[p] = "fillIntent" /\ At(p)
  BY DEF IInv, FillIntent, Advance
<1>2. loc[p].record = recovery /\ recovery \in Records /\ invoice[recovery.hash] # None
  BY <1>1 DEF At, Loaded, Invoiced
<1>3. BuildIntent(p).hash_commitment = loc[p].record.hash
  BY DEF BuildIntent
<1>4. intentFile' = BuildIntent(p)
  BY DEF FillIntent, Whole
<1> QED
  BY <1>2, <1>3, <1>4 DEF Records

\* An invoice that is created is for the record on disk.
LEMMA CreatedInvoice ==
    ASSUME IInv, NEW p \in Procs, CreateInvoice(p), NEW h \in Hashes, invoice'[h] # None
    PROVE  invoice[h] # None \/ (Whole(recovery) /\ recovery.hash = h /\ recovery.key = keyFile)
<1>1. pc[p] = "invoice" /\ At(p) /\ TypeOK
  BY DEF IInv, CreateInvoice
<1>2. loc[p].record = recovery /\ recovery \in Records /\ recovery.key = keyFile
  BY <1>1 DEF At, Loaded
<1> QED
  BY <1>1, <1>2 DEF CreateInvoice, TypeOK, Whole

LEMMA SecretStep == IInv /\ [Next]_vars => SecretIsDurable' /\ NamesHash'
<1> SUFFICES ASSUME IInv, [Next]_vars PROVE SecretIsDurable' /\ NamesHash'
  OBVIOUS
<1>0. TypeOK /\ Grows /\ SecretIsDurable /\ NamesHash /\ Decrypts
  BY GrowsStep DEF IInv
<1> USE DEF fileVars, worldVars
<1>1. ASSUME \A h \in Hashes : invoice'[h] # None =>
                \/ invoice[h] # None
                \/ Whole(recovery) /\ recovery.hash = h /\ recovery.key = keyFile,
             Whole(intentFile') =>
                \/ intentFile' = intentFile
                \/ /\ intentFile'.hash_commitment \in Hashes
                   /\ invoice[intentFile'.hash_commitment] # None
      PROVE  SecretIsDurable' /\ NamesHash'
  <2>1. \A h \in Hashes : invoice'[h] # None =>
            Whole(recovery) /\ recovery.hash = h /\ recovery.key = keyFile /\ keyFile \in Keys
    BY <1>0, <1>1 DEF SecretIsDurable, Decrypts
  <2>2. \A h \in Hashes : invoice'[h] # None =>
            /\ Whole(recovery') /\ recovery'.hash = h
            /\ recovery'.key = keyFile'
    BY <1>0, <2>1 DEF Grows, Whole
  <2>3. Whole(intentFile') => /\ intentFile'.hash_commitment \in Hashes
                             /\ invoice'[intentFile'.hash_commitment] # None
    BY <1>0, <1>1 DEF SecretIsDurable, NamesHash, Grows
  <2> QED
    BY <2>2, <2>3 DEF SecretIsDurable, NamesHash, Whole
<1>2. ASSUME NEW p \in Procs, FillIntent(p)
      PROVE  SecretIsDurable' /\ NamesHash'
  BY <1>1, <1>2, FilledIntent DEF FillIntent, Advance, Goto
<1>3. ASSUME NEW p \in Procs, CreateInvoice(p)
      PROVE  SecretIsDurable' /\ NamesHash'
  BY <1>1, <1>3, CreatedInvoice DEF CreateInvoice
<1>4. ASSUME NEW p \in Procs, TruncateIntent(p)
      PROVE  SecretIsDurable' /\ NamesHash'
  BY <1>1, <1>4 DEF TruncateIntent, Whole
<1>5. ASSUME NEW h \in Hashes, InvoiceExpires(h)
      PROVE  SecretIsDurable' /\ NamesHash'
  BY <1>0, <1>1, <1>5 DEF InvoiceExpires, TypeOK
<1>6. CASE UNCHANGED <<invoice, intentFile>>
  BY <1>1, <1>6
<1> QED
  BY <1>2, <1>3, <1>4, <1>5, <1>6 DEF Next, Step, Start, Stop, LiquidBlock, vars, Goto,
     KeyExists, ReadKey, CreateKey, FillKey, ReadChains, LoadRecovery, CreateRecovery,
     FillRecovery, LookupInvoice, IntentExists

LEMMA DecryptsStep == IInv /\ [Next]_vars => Decrypts'
<1> SUFFICES ASSUME IInv, [Next]_vars PROVE Decrypts'
  OBVIOUS
<1>0. TypeOK /\ Grows /\ Decrypts /\ OneWriter
  BY GrowsStep DEF IInv
<1> USE DEF fileVars, worldVars
<1>1. ASSUME NEW p \in Procs, FillRecovery(p)
      PROVE  Decrypts'
  <2>1. pc[p] = "fill" /\ At(p)
    BY <1>1 DEF IInv, FillRecovery, Advance
  <2> QED
    BY <1>1, <2>1 DEF Decrypts, At, Drawn, Keyed, FillRecovery
<1>2. ASSUME NEW p \in Procs, CreateRecovery(p)
      PROVE  Decrypts'
  BY <1>0, <1>2 DEF Decrypts, CreateRecovery, Whole
<1>3. CASE UNCHANGED recovery
  BY <1>0, <1>3 DEF Decrypts, Grows
<1> QED
  BY <1>1, <1>2, <1>3 DEF Next, Step, Start, Stop, LiquidBlock, vars, Goto,
     KeyExists, ReadKey, CreateKey, FillKey, ReadChains, LoadRecovery, LookupInvoice,
     CreateInvoice, IntentExists, TruncateIntent, FillIntent, InvoiceExpires

LEMMA InvInit == Init => IInv
  BY TypeInit DEF Init, IInv, SecretIsDurable, Decrypts, NamesHash, OneWriter, At, Whole,
     Keyed, Drawn, Loaded, Invoiced

LEMMA InvStep == IInv /\ [Next]_vars => IInv'
  BY TypeStep, OneWriterStep, AtStep, SecretStep, DecryptsStep DEF IInv

LEMMA Invariance == Spec => []IInv
  BY InvInit, InvStep, PTL DEF Spec

(* Files, invoices and the locals of every process keep their types, and a  *)
(* process that has ended holds nothing, for any number of processes.       *)
THEOREM TypeCorrect == Spec => []TypeOK
<1>1. IInv => TypeOK
  BY DEF IInv
<1> QED
  BY <1>1, Invariance, PTL

(* No invoice can be paid whose preimage is not on disk, for any number of  *)
(* concurrent commands, secrets, deaths and lost answers (recovery.rs       *)
(* write_recovery before live.rs create_hold_invoice).                      *)
THEOREM SecretIsDurableAlways == Spec => []SecretIsDurable
<1>1. IInv => SecretIsDurable
  BY DEF IInv
<1> QED
  BY <1>1, Invariance, PTL

(* The arguments that a maker can quote one for one, with a Lightning       *)
(* expiry that lies ahead (prepare itself takes lightning_max_cltv = 0, and *)
(* every quote for it is refused), and an invoice whose text says what it   *)
(* was created with.                                                        *)
OneForOne ==
    /\ AssetHash # None
    /\ Lifetime > 0 /\ Validity > 0
    /\ \A args \in Arguments :
        /\ args.amount_in = args.amount_out
        /\ Blocks(args.lightning_max_cltv, BitcoinSeconds) > 0
        /\ args.amount_out * 1000 <= MaxU64
        /\ \A h \in Hashes :
            LET text == PaymentRequest(h, args.amount_out)
            IN  /\ text # None
                /\ text \in DOMAIN Bolt11
                /\ Bolt11[text] = [network |-> "Regtest", hash |-> h,
                                   amount_msat |-> args.amount_out * 1000]

\* The deadlines that prepare accepts are those that every quote must leave.
LEMMA DeadlinesLeaveMargin ==
    ASSUME NEW args \in Arguments, NEW source \in Nat, NEW time \in Nat,
           LeavesMargin(Context(args, source, Tip, time))
    PROVE  LET context == Context(args, source, Tip, time)
           IN  /\ time < MaxU64
               /\ context.source_refund_at > time
               /\ context.source_refund_at >
                    Later(context.lightning_expiry_at, context.margin_seconds)
               /\ context.destination_refund_at = context.lightning_expiry_at
               /\ Blocks(args.lightning_max_cltv, BitcoinSeconds) > 0 =>
                    context.lightning_expiry_at > time
<1> DEFINE context == Context(args, source, Tip, time)
<1>1. /\ args.source_refund_delta \in Nat /\ args.lightning_max_cltv \in Nat
      /\ args.margin_seconds \in Nat
  BY DEF ArgumentFields
<1>2. /\ Blocks(args.source_refund_delta, LiquidSeconds) \in Nat
      /\ Blocks(args.lightning_max_cltv, BitcoinSeconds) \in Nat
  BY <1>1 DEF Blocks
<1>3. /\ context.source_refund_at = time + Blocks(args.source_refund_delta, LiquidSeconds)
      /\ context.lightning_expiry_at = time + Blocks(args.lightning_max_cltv, BitcoinSeconds)
      /\ context.destination_refund_at = context.lightning_expiry_at
      /\ context.margin_seconds = args.margin_seconds
  BY DEF Context
<1>4. /\ context.source_refund_at <= MaxU64
      /\ context.source_refund_at > Later(context.lightning_expiry_at, context.margin_seconds)
  BY DEF LeavesMargin
<1> HIDE DEF context
<1>5. Later(context.lightning_expiry_at, context.margin_seconds) >= time
        \/ Later(context.lightning_expiry_at, context.margin_seconds) = MaxU64
  BY <1>1, <1>2, <1>3 DEF Later
<1> QED
  BY <1>1, <1>2, <1>3, <1>4, <1>5 DEF context, Later

(* What a process writes as the intent, with a quote for it, passes every   *)
(* check of the maker and of the client, and is bound to the record.        *)
LEMMA ValidWhenWritten ==
    ASSUME OneForOne, IInv, NEW p \in Procs, pc[p] = "fillIntent"
    PROVE  LET intent == BuildIntent(p)
               rate == [numerator |-> 1, denominator |-> 1]
               solver == [id |-> Maker, key_id |-> Maker, rate |-> rate, fee |-> 0]
               quote == MakerQuote(intent, solver, Validity, intent.created_at)
               fee == recovery.terms[3]
           IN  /\ Quotable(intent, AssetHash, "BTC", rate)
               /\ VerifyQuote(intent, SignQuote(quote, Maker), [m \in {Maker} |-> m],
                              AssetHash, intent.deadline_context, intent.created_at)
               /\ ValidPaymentRequest(intent, quote)
               /\ \/ RecoveryBinds(intent, quote, fee) /\ FeeWithinCap(intent, fee)
                  \/ recovery.lock # intent.deadline_context.source_refund_height
                  \/ fee > intent.fee_limit_lbtc
<1> DEFINE intent == BuildIntent(p)
           rate == [numerator |-> 1, denominator |-> 1]
           solver == [id |-> Maker, key_id |-> Maker, rate |-> rate, fee |-> 0]
           quote == MakerQuote(intent, solver, Validity, intent.created_at)
           fee == recovery.terms[3]
           args == loc[p].args
           context == loc[p].context
           text == PaymentRequest(recovery.hash, args.amount_out)
<1>1. TypeOK /\ At(p)
  BY DEF IInv
<1>2. /\ args \in Arguments /\ recovery \in Records /\ loc[p].now \in Nat
      /\ loc[p].record = recovery
      /\ recovery.hash \in Hashes /\ recovery.terms = Terms(args)
  BY <1>1 DEF TypeOK, At, Locals, Records, Drawn, Loaded
<1>3. /\ args.amount_out \in Nat /\ args.amount_in = args.amount_out
      /\ args.fee_limit_lbtc \in Nat
  BY <1>2 DEF ArgumentFields, OneForOne
<1>4. PICK source \in 0..MaxHeight : context = Context(args, source, Tip, loc[p].now)
  BY <1>1 DEF At, Loaded
<1>5. LeavesMargin(context)
  BY <1>1 DEF At, Loaded
<1>6. /\ context \in [ContextFields -> Nat]
      /\ loc[p].now < MaxU64
      /\ context.source_refund_at > loc[p].now
      /\ context.source_refund_at > Later(context.lightning_expiry_at, context.margin_seconds)
      /\ context.destination_refund_at > loc[p].now
  <2> DEFINE now0 == loc[p].now
  <2>1. /\ source \in Nat /\ args \in Arguments /\ now0 \in Nat
        /\ LeavesMargin(Context(args, source, Tip, now0))
    BY <1>2, <1>4, <1>5
  <2>2. Blocks(args.lightning_max_cltv, BitcoinSeconds) > 0
    BY <1>2 DEF OneForOne
  <2>3. context = Context(args, source, Tip, now0)
    BY <1>4
  <2> HIDE DEF now0, args, context
  <2>4. context \in [ContextFields -> Nat]
    BY <2>1, <2>3, ContextType
  <2>5. /\ now0 < MaxU64 /\ context.source_refund_at > now0
        /\ context.source_refund_at > Later(context.lightning_expiry_at, context.margin_seconds)
        /\ context.destination_refund_at > now0
    BY <2>1, <2>2, <2>3, DeadlinesLeaveMargin
  <2> QED
    BY <2>4, <2>5 DEF now0
<1>7. /\ intent.version = 1
      /\ intent.source = Endpoint("TEST-DEPIX", "LiquidRegtest", AssetHash)
      /\ intent.destination = Endpoint("BTC", "LightningRegtest", None)
      /\ intent.amount_in = args.amount_in /\ intent.min_amount_out = args.amount_out
      /\ intent.fee_limit_lbtc = args.fee_limit_lbtc
      /\ intent.hash_commitment = recovery.hash
      /\ intent.destination_destination = text
      /\ intent.deadline_context = context
      /\ intent.created_at = loc[p].now /\ intent.expires_at = Later(loc[p].now, Lifetime)
      /\ intent.client_claim_pubkey = <<"claim", recovery.hash>>
      /\ intent.client_refund_pubkey = <<"refund", recovery.hash>>
      /\ intent.source_destination = Address(recovery)
      /\ intent.refund_destination = <<"destination", recovery.hash>>
  BY <1>2 DEF BuildIntent
<1>8. /\ text # None /\ text \in DOMAIN Bolt11
      /\ Bolt11[text].network = "Regtest" /\ Bolt11[text].hash = recovery.hash
      /\ Bolt11[text].amount_msat = args.amount_out * 1000
      /\ Bolt11[text].amount_msat # None
      /\ args.amount_out * 1000 <= MaxU64
  <2>1. /\ text # None /\ text \in DOMAIN Bolt11 /\ args.amount_out * 1000 <= MaxU64
        /\ Bolt11[text] = [network |-> "Regtest", hash |-> recovery.hash,
                           amount_msat |-> args.amount_out * 1000]
    BY <1>2 DEF OneForOne
  <2>2. args.amount_out * 1000 # None
    BY <1>3
  <2> QED
    BY <2>1, <2>2
<1>9. RatedAmount(intent.amount_in, rate) = args.amount_out
  BY <1>3, <1>7, <1>8 DEF RatedAmount
<1>10. ToLightning(intent) /\ intent.destination.asset_id = "BTC"
       /\ intent.destination.network = "LightningRegtest"
       /\ intent.source.network = "LiquidRegtest"
  BY <1>7 DEF ToLightning, Endpoint
<1>11. /\ \A f \in BoundFields : quote[f] = intent[f]
       /\ \A f \in QuotedHeights : quote[f] = context[f]
       /\ quote.version = 1
       /\ quote.amount_out = args.amount_out
       /\ quote.fee_lbtc = 0
       /\ quote.expires_at = IF intent.expires_at < intent.created_at + Validity
                             THEN intent.expires_at ELSE intent.created_at + Validity
       /\ quote.solver_key_id = Maker
       /\ quote.adapter_id = AdapterId(intent.source, intent.destination)
       /\ quote.payment_request = text
  BY <1>7, <1>9, <1>10, QuotedFields
<1>12. /\ quote.source = intent.source /\ quote.destination = intent.destination
       /\ quote.deadline_context = context /\ quote.amount_in = args.amount_in
  BY <1>7, <1>11 DEF BoundFields
<1>13. /\ IsEnabled(AssetHash, intent.source, intent.destination)
       /\ \A e \in {intent.source, intent.destination} :
            ValidEndpoint(e) /\ (NeedsHash(e) => e.asset_hash # None)
  BY <1>7, ForwardRoute DEF OneForOne
<1>14. InvoicePays(text, args.amount_out, recovery.hash)
  BY <1>8 DEF InvoicePays
<1>15. /\ AssetHash # None
       /\ quote.expires_at <= intent.expires_at
       /\ quote.expires_at > intent.created_at
  BY <1>2, <1>6, <1>7, <1>11 DEF OneForOne, Later
<1> HIDE DEF intent, quote, solver, rate, context, args, text, fee
<1>16. Quotable(intent, AssetHash, "BTC", rate)
  BY <1>3, <1>7, <1>8, <1>9, <1>10, <1>13, <1>14 DEF Quotable, ValidDestinationInvoice
<1>17. ValidDeadlines(quote, context, intent.created_at)
  BY <1>6, <1>7, <1>10, <1>11, <1>12 DEF ValidDeadlines
<1>18. ValidTerms(intent, quote, AssetHash, context, intent.created_at)
  <2>1. quote.amount_out >= intent.min_amount_out /\ quote.fee_lbtc <= intent.fee_limit_lbtc
    BY <1>3, <1>7, <1>11
  <2>2. \A e \in {intent.source, intent.destination, quote.source, quote.destination} :
            ValidEndpoint(e)
    BY <1>12, <1>13
  <2> QED
    BY <1>7, <1>11, <1>12, <1>13, <1>15, <1>17, <2>1, <2>2 DEF ValidTerms
<1>19. VerifyQuote(intent, SignQuote(quote, Maker), [m \in {Maker} |-> m],
                   AssetHash, intent.deadline_context, intent.created_at)
  <2>1. /\ SignQuote(quote, Maker).quote = quote
        /\ SignQuote(quote, Maker).signature.key = Maker
        /\ SignQuote(quote, Maker).signature.digest = QuoteDigest(quote)
    BY DEF SignQuote
  <2> QED
    BY <1>7, <1>11, <1>18, <2>1 DEF VerifyQuote
<1>20. ValidPaymentRequest(intent, quote)
  BY <1>7, <1>8, <1>10, <1>11, <1>14 DEF ValidPaymentRequest
<1>21. \/ RecoveryBinds(intent, quote, fee) /\ FeeWithinCap(intent, fee)
       \/ recovery.lock # intent.deadline_context.source_refund_height
       \/ fee > intent.fee_limit_lbtc
  <2>1. fee = args.fee_sats /\ Terms(args) = <<args.amount_out, args.amount_in, fee>>
    BY <1>2 DEF Terms, fee
  <2>2. fee \in Nat
    BY <1>2, <2>1 DEF ArgumentFields
  <2>3. fee <= intent.fee_limit_lbtc \/ fee > intent.fee_limit_lbtc
    BY <1>3, <1>7, <2>2
  <2>4. ASSUME recovery.lock = intent.deadline_context.source_refund_height
        PROVE  RecoveryBinds(intent, quote, fee)
    BY <1>2, <1>7, <1>11, <1>12, <2>1, <2>4 DEF RecoveryBinds
  <2> QED
    BY <2>3, <2>4 DEF FeeWithinCap
<1> QED
  BY <1>16, <1>19, <1>20, <1>21 DEF intent, quote, solver, rate, fee

(* An intent is written only by a process whose record is the one on disk,  *)
(* and that record is never replaced.                                       *)
LEMMA ValidStep == OneForOne /\ IInv /\ ValidEndToEnd /\ [Next]_vars => ValidEndToEnd'
<1> SUFFICES ASSUME OneForOne, IInv, ValidEndToEnd, [Next]_vars PROVE ValidEndToEnd'
  OBVIOUS
<1>0. Grows /\ SecretIsDurable /\ NamesHash
  BY GrowsStep DEF IInv
<1> USE DEF fileVars, worldVars
<1>1. CASE UNCHANGED intentFile
  <2>1. Whole(intentFile) => UNCHANGED recovery
    BY <1>0 DEF SecretIsDurable, NamesHash, Grows
  <2> QED
    BY <1>1, <2>1 DEF ValidEndToEnd, RecoveryBinds, FeeWithinCap, Whole
<1>2. ASSUME NEW p \in Procs, FillIntent(p)
      PROVE  ValidEndToEnd'
  <2>1. CASE ~Whole(intentFile')
    BY <2>1 DEF ValidEndToEnd, Whole
  <2>2. CASE Whole(intentFile')
    <3>1. intentFile' = BuildIntent(p) /\ UNCHANGED recovery /\ pc[p] = "fillIntent"
      BY <1>2, <2>2, FilledIntent DEF FillIntent, Advance
    <3> QED
      BY <3>1, ValidWhenWritten DEF ValidEndToEnd, RecoveryBinds, FeeWithinCap
  <2> QED
    BY <2>1, <2>2
<1>3. ASSUME NEW p \in Procs, TruncateIntent(p)
      PROVE  ValidEndToEnd'
  BY <1>3 DEF TruncateIntent, ValidEndToEnd, Whole
<1> QED
  BY <1>1, <1>2, <1>3 DEF Next, Step, Start, Stop, LiquidBlock, vars, Goto, KeyExists,
     ReadKey, CreateKey, FillKey, ReadChains, LoadRecovery, CreateRecovery, FillRecovery,
     LookupInvoice, CreateInvoice, IntentExists, InvoiceExpires

(* What prepare writes is quoted one for one, verified by client and maker, *)
(* and accepted by `swap forward` with the chain fee it was prepared with   *)
(* unless its refund height is not that of the record or the fee is above   *)
(* the limit of the intent - for every set of arguments with a Lightning    *)
(* expiry that lies ahead, every speed of the chains and every number of    *)
(* concurrent commands (live.rs run_prepare against rfq.rs                  *)
(* validate_deadlines and live.rs validate_recovery_binding, swap_terms).   *)
THEOREM ValidEndToEndAlways == ASSUME OneForOne PROVE Spec => []ValidEndToEnd
<1>1. Init => ValidEndToEnd
  BY DEF Init, ValidEndToEnd, Whole
<1>2. IInv /\ ValidEndToEnd /\ [Next]_vars => ValidEndToEnd'
  BY ValidStep
<1> QED
  BY <1>1, <1>2, Invariance, PTL DEF Spec
===============================================================================
