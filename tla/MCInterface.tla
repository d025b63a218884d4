---------------------------- MODULE MCInterface ----------------------------
(***************************************************************************)
(* The parts of the interface, each by itself: a behaviour is one of one   *)
(* part, the others stay in their first state.  What they share with one   *)
(* another is in each module an input of any kind.                         *)
(***************************************************************************)
EXTENDS ThreadPage, Windows, Keybindings, SavedSearches, ThreadList,
        Compose, CommandBar, ChildPipes

VARIABLE part
interfaceVars == <<part, pageVars, winVars, keyVars, searchVars, listVars, composeVars,
                   barVars, pipeVars>>

\* Two messages, the second the older: one with two alternative parts and an
\* attachment, and one with a part.
MCAge == <<2, 1>>
MCElements == << <<"Empty", "Part", "Part", "Attachment">>, <<"Empty", "Part">> >>
MCAlternatives == << {1, 2}, {} >>

\* A command with an alias, one with two and one without a default key.
MCRegistered == << [name |-> "next", key |-> 1, aliases |-> <<2>>],
                   [name |-> "label", key |-> 3, aliases |-> <<4, 5>>],
                   [name |-> "open", key |-> 0, aliases |-> <<>>] >>
MCStartupQueries == <<"a">>

\* One tag, of two letters.
MCTagNames == << <<"a", "a">> >>

\* The list begins with both threads in the query and the first one unread; its
\* Change takes them out of it, and in again, and reads them.
InterfaceInit ==
  /\ part \in {"page", "windows", "keys", "searches", "list", "compose", "bar", "child"}
  /\ PageInit /\ (part # "page" => unread = {} /\ ~edit_mode)
  /\ WindowsInit /\ KeysInit /\ SearchesInit
  /\ ListInit /\ (part = "list" => /\ \A t \in Thread : notmuch[t].in_query
                                     /\ notmuch[1].tags = Tags)
     /\ (part # "list" => \A t \in Thread : notmuch[t] = [tags |-> {}, in_query |-> FALSE])
  /\ ComposeInit /\ fields.to = Min(Receivers)
     /\ (part # "compose" => kind = "new" /\ sender = DefaultAccount /\ editor = "none")
  /\ BarInit
  /\ PipeInit /\ (part # "child" => pipe_of = "quote" /\ unwritten = 0 /\ child.warnings = 0
                                   /\ child.per = 0 /\ child.whole /\ child.stderr_first)

InterfaceNext ==
  /\ UNCHANGED part
  /\ \/ part = "page" /\ PageNext
          /\ UNCHANGED <<winVars, keyVars, searchVars, listVars, composeVars, barVars, pipeVars>>
     \/ part = "windows" /\ WindowsNext
          /\ UNCHANGED <<pageVars, keyVars, searchVars, listVars, composeVars, barVars, pipeVars>>
     \/ part = "keys" /\ KeysNext
          /\ UNCHANGED <<pageVars, winVars, searchVars, listVars, composeVars, barVars, pipeVars>>
     \/ part = "searches" /\ SearchesNext
          /\ UNCHANGED <<pageVars, winVars, keyVars, listVars, composeVars, barVars, pipeVars>>
     \/ part = "list" /\ ListNext
          /\ UNCHANGED <<pageVars, winVars, keyVars, searchVars, composeVars, barVars, pipeVars>>
     \/ part = "compose" /\ ComposeNext
          /\ UNCHANGED <<pageVars, winVars, keyVars, searchVars, listVars, barVars, pipeVars>>
     \/ part = "bar" /\ BarNext
          /\ UNCHANGED <<pageVars, winVars, keyVars, searchVars, listVars, composeVars, pipeVars>>
     \/ part = "child" /\ PipeNext
          /\ UNCHANGED <<pageVars, winVars, keyVars, searchVars, listVars, composeVars, barVars>>

\* PageFairness and PipeFairness, where there is a page and a child.
InPage(A) == part = "page" /\ A
InterfaceFairness ==
  /\ WF_pageVars(InPage(LoadChanged)) /\ WF_pageVars(InPage(ExtensionConnect))
  /\ WF_pageVars(InPage(IdleRender)) /\ WF_pageVars(InPage(Send))
  /\ WF_pageVars(InPage(Acked)) /\ WF_pageVars(InPage(ExtHandle))
  /\ WF_pipeVars(part = "child" /\ GuiPipe) /\ WF_pipeVars(part = "child" /\ Filters)

InterfaceSpec == InterfaceInit /\ [][InterfaceNext]_interfaceVars /\ InterfaceFairness

=============================================================================
