---------------------------- MODULE MCChatEngine ----------------------------
(***************************************************************************)
(* ChatEngine on small instances.                                          *)
(***************************************************************************)
EXTENDS ChatEngine

\* The shortest answers, for the run with most questions, and answers that
\* can be stopped half-way and whose limit may change meanwhile.
MCOneToken == {1}
MCShortAnswers == {1, 2}

\* A prompt that cannot be tokenised, one that fits, one larger than n_ctx.
MCPromptSizes == {0, 1, 5}

\* Only one that fits.
MCOnePrompt == {1}

=============================================================================
