----------------------------- MODULE MCTerminal -----------------------------
(* Instances of Terminal: the consoles and which of them ask for a password. *)
EXTENDS Terminal

ShellAndLines == {"ssh", "sol", "hmc"}
Line == {"sol"}
Shell == {"ssh"}
Nothing == {}
=============================================================================
