SPECIFICATION QuestSpec
INVARIANTS
  NoButtonIsLeftPressed
  PanelInputStaysOutOfTheGame
