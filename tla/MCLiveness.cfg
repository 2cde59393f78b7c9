SPECIFICATION Spec
CONSTANTS
  Checked = {"session", "mcp_session", "lsp_client", "run_exec", "terminal",
             "delegation", "commands", "web_fetch"}
  NoTask = NoTask
  NoAsk = NoAsk
  Turn = Turn
\* The components stop where their bounds, or a command, end.
CHECK_DEADLOCK FALSE
PROPERTIES
  TurnsReturn
  RequestsEnd
