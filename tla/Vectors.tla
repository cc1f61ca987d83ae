------------------------------ MODULE Vectors ------------------------------
(***************************************************************************)
(* The tables an interrupt goes through: the gate of its vector (idt.c),   *)
(* the stub the gate names (isr_stubs.asm), the number isr_global_handler  *)
(* reads from the stub's info word, and the handler registered for that    *)
(* number (exceptions.c, lapic.c, keyboard.c).                             *)
(***************************************************************************)
EXTENDS Integers, Sequences

CONSTANT
  override_list   \* of the ACPI tables: a sequence of [source, gsi]

Vector == 0..255
INT_PAGE_FAULT == 14
IRQ_APIC_BASE == 48
IRQ_LINT_TIMER == 254
IRQ_NMI == 251
IRQ_IPI_ABORT == 250

\* The interrupt gates clear IF, the trap gates leave it as it is.
idt_init(v) ==
  [ist |-> CASE v \in {2, 252} -> "IST_NMI" [] v = 8 -> "IST_DOUBLE_FAULT" [] OTHER -> "IST_NONE",
   cli |-> v < 32 \/ v = 252]

\* The kind of stub of a vector.
isr_stub(v) ==
  CASE v \in {8, 10, 11, 12, 13, 14, 17, 30} -> "err"
    [] v < 32 \/ v = IRQ_NMI -> "noerr"
    [] v \in 32..47 \/ v = 255 -> "nop"
    [] OTHER -> "irq"

\* The info word a stub leaves on the stack: exceptions keep the error code, or 0,
\* in the low half and the vector in the high half.
info(v, error) ==
  CASE isr_stub(v) = "err" -> [low |-> error, high |-> v]
    [] isr_stub(v) = "noerr" -> [low |-> 0, high |-> v]
    [] OTHER -> [low |-> v, high |-> 0]

\* The number isr_global_handler looks up.
int_no(i) == i.low % 256

ioapic_isa_to_gsi(isa) ==
  LET hit == {i \in DOMAIN override_list : override_list[i].source = isa}
  IN IF hit = {} THEN isa
     ELSE override_list[CHOOSE i \in hit : \A j \in hit : i <= j].gsi

ps2kbd_vec == IRQ_APIC_BASE + ioapic_isa_to_gsi(1)

\* The handlers of the 32 exceptions.
exceptions_init(v) ==
  IF v = INT_PAGE_FAULT THEN "exception_handler" ELSE "page_fault_handler"

\* isr_table once every isr_set_info has run; isr_init leaves the other entries
\* zero, which is an IRQ without a handler.
isr_table(v) ==
  CASE v < 32 -> [type |-> "ISR_EXCEPTION", handler |-> exceptions_init(v)]
    [] v = IRQ_NMI -> [type |-> "ISR_EXCEPTION", handler |-> "exception_handler"]
    [] v = IRQ_LINT_TIMER -> [type |-> "ISR_IRQ", handler |-> "lapic_timer_callback"]
    [] v = ps2kbd_vec -> [type |-> "ISR_IRQ", handler |-> "ps2kbd_irq_handler"]
    [] OTHER -> [type |-> "ISR_IRQ", handler |-> "NULL"]
=============================================================================
