----------------------------- MODULE Terminals ------------------------------
(* What the keyboard driver and the consoles share: the static curr_tty of *)
(* kernel/dev/tty/tty.c, and which of tty_devs were set up by tty_open.    *)
VARIABLES
    curr_tty,       \* the visible terminal, to which the keys go
    opened          \* the terminals tty_open was called for
=============================================================================
