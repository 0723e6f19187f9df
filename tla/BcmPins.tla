-------------------------------- MODULE BcmPins --------------------------------
(***************************************************************************)
(* The pins, the pulse width channels and the free running counter of the  *)
(* Raspberry Pi as bcm2835.c drives them.  A group of registers is the set *)
(* of its bits that are one, bit b of the group's word w having the number *)
(* 32 * w + b.  The debug mode, in which nothing is accessed, is left out. *)
(***************************************************************************)
EXTENDS Integers, FiniteSets, FiniteSetsExt

CONSTANTS
  CallPins,     \* the pins calls are made for
  PinModes,     \* the functions asked for, a subset of 0 .. 7
  MaxCalls,     \* calls on the pins and channels
  LowRange,     \* 2^32 in the counter: the values of its low word
  MaxTime       \* the last value of the counter

ASSUME PinsAssumption ==
  /\ CallPins \subseteq 0 .. 53 /\ PinModes \subseteq 0 .. 7
  /\ {MaxCalls, MaxTime} \subseteq Nat /\ LowRange \in Nat \ {0}

PUD_OFF == 0
PUD_DOWN == 1
PUD_UP == 2
FSEL_INPT == 0
FSEL_ALT0 == 4
FSEL_ALT4 == 3

Pads == 0 .. 53
Detects == {"GPREN", "GPFEN", "GPHEN", "GPLEN", "GPAREN", "GPAFEN"}
GpioBase == {"gpio"}
AllBases == {"gpio", "pwm", "clk", "pads", "spi0", "bsc0", "bsc1", "st", "aux", "spi1"}
Spi0Pins == 7 .. 11
Spi1Pins == {16, 19, 20, 21}
I2cPins == {2, 3}

VARIABLES
  bases,     \* the register bases that are not MAP_FAILED, and pud_type_rpi4
  gpio,      \* the registers of the pins; pull: what each pad's resistor really is
  pwm,       \* the registers of the pulse width modulator and its clock
  askedOf,   \* ghost: what was last asked of every pin and channel
  pinCalls,  \* calls made
  clock      \* the counter, and a delayMicroseconds in progress

pinVars == <<bases, gpio, pwm, askedOf, pinCalls, clock>>

NoDelay == [now |-> 0, at |-> "idle", hi |-> 0, lo |-> 0, st |-> 0, began |-> 0, entered |-> 0,
            start |-> -1, micros |-> 0, value |-> 0]

PinsInit ==
  /\ bases \in [mapped : {{}}, rpi4 : BOOLEAN]
  /\ gpio = [fsel |-> {}, level |-> {}, events |-> {}, detect |-> [d \in Detects |-> {}],
             GPPUD |-> PUD_OFF, pupd |-> {}, pull |-> [p \in Pads |-> PUD_OFF]]
  /\ pwm = [control |-> {}, range |-> <<0, 0>>, data |-> <<0, 0>>, divisor |-> 0, pad |-> [g \in 0 .. 2 |-> 0]]
  /\ askedOf = [mode |-> [p \in Pads |-> FSEL_INPT], level |-> {}, detect |-> {}, events |-> {},
                pull |-> [p \in Pads |-> PUD_OFF], channel |-> [c \in 0 .. 1 |-> [mark |-> FALSE, on |-> FALSE, range |-> 0, data |-> 0]]]
  /\ pinCalls = 0
  /\ clock = NoDelay

Has(base) == base \in bases.mapped
Calls(base) == Has(base) /\ pinCalls < MaxCalls /\ clock.at = "idle" /\ pinCalls' = pinCalls + 1 /\ UNCHANGED clock

\* bcm2835_peri_set_bits: the bits of the mask take the value's, the others stay.
peri_set_bits(reg, value, mask) == (reg \ mask) \cup (value \cap mask)
Shifted(value, shift) == {shift + i : i \in {j \in 0 .. 7 : (value \div 2^j) % 2 = 1}}
FieldAt(reg, shift, width) == FoldSet(LAMBDA i, sum : sum + (IF shift + i \in reg THEN 2^i ELSE 0), 0, 0 .. width - 1)

\* Ten pins of three bits in a word.
FselShift(pin) == 32 * (pin \div 10) + 3 * (pin % 10)
Fsel(reg, pin, mode) == peri_set_bits(reg, Shifted(mode, FselShift(pin)), Shifted(7, FselShift(pin)))
FselAll(pins, mode) == FoldSet(LAMBDA pin, reg : Fsel(reg, pin, mode), gpio.fsel, pins)
PinBit(pin) == {32 * (pin \div 32) + (pin % 32)}

bcm2835_gpio_fsel(pin, mode) ==
  /\ Calls("gpio")
  /\ gpio' = [gpio EXCEPT !.fsel = Fsel(@, pin, mode)]
  /\ askedOf' = [askedOf EXCEPT !.mode[pin] = mode]
  /\ UNCHANGED <<bases, pwm>>

\* GPSET and GPCLR are written with the pin's bit alone: a zero bit changes nothing.
bcm2835_gpio_write(pin, on) ==
  /\ Calls("gpio")
  /\ gpio' = [gpio EXCEPT !.level = IF on THEN @ \cup PinBit(pin) ELSE @ \ PinBit(pin)]
  /\ askedOf' = [askedOf EXCEPT !.level = IF on THEN @ \cup {pin} ELSE @ \ {pin}]
  /\ UNCHANGED <<bases, pwm>>

\* The masks reach the pins of the first word only; the ones are set before the zeros are cleared.
FirstWord(pins) == {p \in pins : p < 32}
bcm2835_gpio_write_multi(pins, on) ==
  /\ Calls("gpio")
  /\ gpio' = [gpio EXCEPT !.level = IF on THEN @ \cup FirstWord(pins) ELSE @ \ FirstWord(pins)]
  /\ askedOf' = [askedOf EXCEPT !.level = IF on THEN @ \cup FirstWord(pins) ELSE @ \ FirstWord(pins)]
  /\ UNCHANGED <<bases, pwm>>
bcm2835_gpio_write_mask(value, mask) ==
  /\ Calls("gpio")
  /\ gpio' = [gpio EXCEPT !.level = (@ \cup FirstWord(value \cap mask)) \ FirstWord(mask \ value)]
  /\ askedOf' = [askedOf EXCEPT !.level = {p \in Pads : IF p \in FirstWord(mask) THEN p \in value ELSE p \in @}]
  /\ UNCHANGED <<bases, pwm>>

\* The six detect enables, and what clears them.
bcm2835_gpio_ren(detect, pin, on) ==
  /\ Calls("gpio")
  /\ gpio' = [gpio EXCEPT !.detect[detect] = peri_set_bits(@, IF on THEN PinBit(pin) ELSE {}, PinBit(pin))]
  /\ askedOf' = [askedOf EXCEPT !.detect = IF on THEN @ \cup {<<detect, pin>>} ELSE @ \ {<<detect, pin>>}]
  /\ UNCHANGED <<bases, pwm>>

\* The hardware: an edge or a level at a pin where one is enabled.
PinEvent(pin) ==
  /\ \E d \in Detects : PinBit(pin) \subseteq gpio.detect[d]
  /\ PinBit(pin) \cap gpio.events = {}
  /\ gpio' = [gpio EXCEPT !.events = @ \cup PinBit(pin)]
  /\ askedOf' = [askedOf EXCEPT !.events = @ \cup {pin}]
  /\ UNCHANGED <<bases, pwm, pinCalls, clock>>

\* A one in GPEDS clears an event: only the ones of the mask are written.
Acknowledged(events, pin) == events \ PinBit(pin)
bcm2835_gpio_set_eds(pin) ==
  /\ Calls("gpio")
  /\ gpio' = [gpio EXCEPT !.events = Acknowledged(@, pin)]
  /\ askedOf' = [askedOf EXCEPT !.events = @ \ {pin}]
  /\ UNCHANGED <<bases, pwm>>
bcm2835_gpio_set_eds_multi(pins) ==
  /\ Calls("gpio")
  /\ gpio' = [gpio EXCEPT !.events = @ \ FirstWord(pins)]
  /\ askedOf' = [askedOf EXCEPT !.events = @ \ FirstWord(pins)]
  /\ UNCHANGED <<bases, pwm>>

bcm2835_gpio_lev(pin) == PinBit(pin) \subseteq gpio.level
bcm2835_gpio_eds(pin) == PinBit(pin) \subseteq gpio.events

\* The Raspberry Pi 4 has two bits a pin, sixteen pins a word, and its own code for up and down.
PullCode(pud) == CASE pud = PUD_OFF -> 0 [] pud = PUD_UP -> 1 [] OTHER -> 2
PullShift(pin) == 32 * (pin \div 16) + 2 * (pin % 16)
PullBits(reg, pin, pud) == (reg \ Shifted(3, PullShift(pin))) \cup Shifted(PullCode(pud), PullShift(pin))
bcm2835_gpio_get_pud(pin) ==
  LET bits == FieldAt(gpio.pupd, PullShift(pin), 2) IN
  CASE bits = 0 -> PUD_OFF [] bits = 1 -> PUD_UP [] bits = 2 -> PUD_DOWN [] OTHER -> 255

\* Earlier models clock GPPUD into the pads of GPPUDCLK, and then take the control signal away.
ClockedPull(pull, GPPUD, pin) == [pull EXCEPT ![pin] = GPPUD]
bcm2835_gpio_set_pud(pin, pud) ==
  /\ Calls("gpio")
  /\ gpio' = IF bases.rpi4
             THEN [gpio EXCEPT !.pupd = PullBits(@, pin, pud)]
             ELSE [gpio EXCEPT !.pull = ClockedPull(@, pud, pin), !.GPPUD = PUD_OFF]
  /\ askedOf' = [askedOf EXCEPT !.pull[pin] = pud]
  /\ UNCHANGED <<bases, pwm>>

\* The pins of a bus are taken over by its begin, and made inputs by its end.
TakePins(base, pins, mode) ==
  /\ Calls("gpio")
  /\ IF Has(base)
     THEN /\ gpio' = [gpio EXCEPT !.fsel = FselAll(pins, mode)]
          /\ askedOf' = [askedOf EXCEPT !.mode = [p \in Pads |-> IF p \in pins THEN mode ELSE @[p]]]
     ELSE UNCHANGED <<gpio, askedOf>>
  /\ UNCHANGED <<bases, pwm>>
bcm2835_spi_begin == TakePins("spi0", Spi0Pins, FSEL_ALT0)
bcm2835_spi_end == TakePins("gpio", Spi0Pins, FSEL_INPT)
bcm2835_aux_spi_begin == TakePins("spi1", Spi1Pins, FSEL_ALT4)
bcm2835_aux_spi_end == TakePins("gpio", Spi1Pins, FSEL_INPT)
bcm2835_i2c_begin == TakePins("bsc1", I2cPins, FSEL_ALT0)
bcm2835_i2c_end == TakePins("gpio", I2cPins, FSEL_INPT)

\* The enable and mark-space bits of the two channels share a word.
EnableBit(channel) == IF channel = 0 THEN {0} ELSE {8}
MarkBit(channel) == IF channel = 0 THEN {7} ELSE {15}
ModeWord(control, channel, mark, on) ==
  LET marked == IF mark THEN control \cup MarkBit(channel) ELSE control \ MarkBit(channel) IN
  IF on THEN marked \cup EnableBit(channel) ELSE marked \ EnableBit(channel)
bcm2835_pwm_set_mode(channel, mark, on) ==
  /\ Calls("pwm")
  /\ pwm' = [pwm EXCEPT !.control = ModeWord(@, channel, mark, on)]
  /\ askedOf' = [askedOf EXCEPT !.channel[channel].mark = mark, !.channel[channel].on = on]
  /\ UNCHANGED <<bases, gpio>>
bcm2835_pwm_set_range(channel, range) ==
  /\ Calls("pwm")
  /\ pwm' = [pwm EXCEPT !.range[channel + 1] = range]
  /\ askedOf' = [askedOf EXCEPT !.channel[channel].range = range]
  /\ UNCHANGED <<bases, gpio>>
bcm2835_pwm_set_data(channel, data) ==
  /\ Calls("pwm")
  /\ pwm' = [pwm EXCEPT !.data[channel + 1] = data]
  /\ askedOf' = [askedOf EXCEPT !.channel[channel].data = data]
  /\ UNCHANGED <<bases, gpio>>

\* The clock is stopped, and started again with a divisor of twelve bits.
bcm2835_pwm_set_clock(divisor) ==
  /\ Calls("clk")
  /\ pwm' = [pwm EXCEPT !.divisor = divisor % 4096]
  /\ UNCHANGED <<bases, gpio, askedOf>>
bcm2835_gpio_set_pad(group, control) ==
  /\ Calls("pads")
  /\ pwm' = [pwm EXCEPT !.pad[group] = control]
  /\ UNCHANGED <<bases, gpio, askedOf>>

\* The superuser maps every base, others the pins alone; a failed open or mmap closes everything.
bcm2835_init(mapped) ==
  /\ clock.at = "idle" /\ bases.mapped = {}
  /\ mapped \in {AllBases, GpioBase, {}}
  /\ bases' = [bases EXCEPT !.mapped = mapped]
  /\ UNCHANGED <<gpio, pwm, askedOf, pinCalls, clock>>
bcm2835_close ==
  /\ clock.at = "idle" /\ bases.mapped # {} /\ pinCalls = MaxCalls
  /\ bases' = [bases EXCEPT !.mapped = {}]
  /\ UNCHANGED <<gpio, pwm, askedOf, pinCalls, clock>>

(***************************************************************************)
(* The counter runs on between the reads of its two words.  A read that    *)
(* takes 2^32 microseconds is left out.                                    *)
(***************************************************************************)
Tick ==
  /\ clock.at # "idle" /\ clock.now < MaxTime
  /\ clock.now - clock.entered < LowRange - 1 \/ clock.at = "sleep"
  /\ clock' = [clock EXCEPT !.now = @ + 1]
  /\ UNCHANGED <<bases, gpio, pwm, askedOf, pinCalls>>

NewRead(c) == [c EXCEPT !.at = "hi", !.entered = c.now]

\* delayMicroseconds may be called at any value of the counter.
bcm2835_delayMicroseconds(now, micros) ==
  /\ clock.at = "idle" /\ Has("st") /\ pinCalls = 0
  /\ clock' = NewRead([clock EXCEPT !.now = now, !.began = now, !.micros = micros, !.start = -1])
  /\ UNCHANGED <<bases, gpio, pwm, askedOf, pinCalls>>

\* What the words give: the high word again, and the low word again when it has changed.
Overflown(c) == c.st # c.hi
ReadValue(c) == c.st * LowRange + (IF Overflown(c) THEN c.now % LowRange ELSE c.lo)

\* The first value is the start; a start of 0 is taken for a counter that cannot be read, and the
\* whole delay is slept; a long one is slept but for 200 (here one) microseconds, then read out.
AfterValue(c, value) ==
  CASE c.start = -1 /\ value = 0  -> [c EXCEPT !.start = value, !.value = value, !.at = "slept"]
    [] c.start = -1 /\ value # 0  -> [c EXCEPT !.start = value, !.value = value, !.at = IF c.micros > 1 THEN "sleep" ELSE "again"]
    [] OTHER                      -> [c EXCEPT !.value = value, !.at = IF value < c.start + c.micros THEN "again" ELSE "done"]

bcm2835_st_read ==
  /\ clock' = CASE clock.at = "hi"    -> [clock EXCEPT !.hi = clock.now \div LowRange, !.at = "lo"]
                [] clock.at = "lo"    -> [clock EXCEPT !.lo = clock.now % LowRange, !.at = "st"]
                [] clock.at = "st"    -> [clock EXCEPT !.st = clock.now \div LowRange, !.at = "value"]
                [] clock.at = "value" -> AfterValue(clock, ReadValue(clock))
                [] OTHER              -> clock
  /\ clock.at \in {"hi", "lo", "st", "value"}
  /\ UNCHANGED <<bases, gpio, pwm, askedOf, pinCalls>>

\* A signal may end the sleep early: st_delay reads the counter until the time has passed.
bcm2835_st_delay ==
  /\ clock.at \in {"sleep", "again"}
  /\ clock' = NewRead(clock)
  /\ UNCHANGED <<bases, gpio, pwm, askedOf, pinCalls>>

DelayReturns ==
  /\ clock.at \in {"done", "slept"}
  /\ clock' = NoDelay
  /\ UNCHANGED <<bases, gpio, pwm, askedOf, pinCalls>>

PinCall ==
  \/ \E p \in CallPins :
       \/ \E m \in PinModes : bcm2835_gpio_fsel(p, m)
       \/ \E on \in BOOLEAN : bcm2835_gpio_write(p, on)
       \/ \E d \in {"GPREN", "GPAFEN"}, on \in BOOLEAN : bcm2835_gpio_ren(d, p, on)
       \/ \E pud \in {PUD_OFF, PUD_DOWN, PUD_UP} : bcm2835_gpio_set_pud(p, pud)
       \/ bcm2835_gpio_set_eds(p)
  \/ \E on \in BOOLEAN : bcm2835_gpio_write_multi(CallPins, on)
  \/ \E value \in SUBSET CallPins : bcm2835_gpio_write_mask(value, CallPins)
  \/ bcm2835_gpio_set_eds_multi(CallPins)
  \/ bcm2835_spi_begin \/ bcm2835_spi_end
  \/ bcm2835_aux_spi_begin \/ bcm2835_aux_spi_end
  \/ bcm2835_i2c_begin \/ bcm2835_i2c_end
  \/ \E c \in 0 .. 1 :
       \/ \E mark, on \in BOOLEAN : bcm2835_pwm_set_mode(c, mark, on)
       \/ bcm2835_pwm_set_range(c, 9) \/ bcm2835_pwm_set_data(c, 7)
  \/ bcm2835_pwm_set_clock(4097)
  \/ \E g \in 0 .. 2 : bcm2835_gpio_set_pad(g, 3)

PinsNext ==
  \/ \E mapped \in {AllBases, GpioBase, {}} : bcm2835_init(mapped)
  \/ bcm2835_close
  \/ PinCall
  \/ \E p \in CallPins : PinEvent(p)
  \/ Tick
  \/ \E now \in 0 .. LowRange, micros \in 1 .. 3 : bcm2835_delayMicroseconds(now, micros)
  \/ bcm2835_st_read \/ bcm2835_st_delay \/ DelayReturns

(***************************************************************************)
(* Properties                                                              *)
(***************************************************************************)
PinKept(p) ==
  /\ FieldAt(gpio.fsel, FselShift(p), 3) = askedOf.mode[p]
  /\ bcm2835_gpio_lev(p) = (p \in askedOf.level)
  /\ bcm2835_gpio_eds(p) = (p \in askedOf.events)
  /\ \A d \in Detects : (PinBit(p) \subseteq gpio.detect[d]) = (<<d, p>> \in askedOf.detect)
  /\ IF bases.rpi4 THEN bcm2835_gpio_get_pud(p) = askedOf.pull[p] ELSE gpio.pull[p] = askedOf.pull[p]

ChannelKept(c) ==
  /\ (EnableBit(c) \subseteq pwm.control) = askedOf.channel[c].on
  /\ (MarkBit(c) \subseteq pwm.control) = askedOf.channel[c].mark
  /\ pwm.range[c + 1] = askedOf.channel[c].range /\ pwm.data[c + 1] = askedOf.channel[c].data

DelayLongEnough == clock.at = "done" => clock.now >= clock.began + clock.micros

ValueBetween ==
  clock.at \in {"again", "sleep", "done", "slept"} =>
    clock.value \in clock.entered .. clock.now

\* Every pin and every channel keeps what was last asked of it, whatever is asked of the pins and
\* channels that share its registers, and no event of another pin is acknowledged with it; the
\* 64 bit value put together from two words of a running counter is one the counter had during the
\* read, and a delay measured with it is never short.
PinsSound == (\A p \in CallPins \cup Spi0Pins \cup Spi1Pins \cup I2cPins : PinKept(p)) /\ (\A c \in 0 .. 1 : ChannelKept(c)) /\ ValueBetween /\ DelayLongEnough

================================================================================
