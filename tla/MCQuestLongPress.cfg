SPECIFICATION QuestSpec
PROPERTIES
  LongPressSendsOptions
